---------------------------- MODULE Spec2Model ----------------------------
(***************************************************************************)
(* SocksAuth: a SOCKS5-to-SOCKS5 forwarding proxy.                         *)
(*                                                                         *)
(* Three state machines share this module:                                 *)
(*   Spec          Server.Start: listener, accept loop, semaphore, one     *)
(*                 goroutine per admitted connection                       *)
(*   SpecSession   one connection's goroutine, stage by stage, on bytes    *)
(*   SpecResolver  FindNordVpnServer on the package-level server cache     *)
(***************************************************************************)
EXTENDS Integers, Sequences, FiniteSets, TLC

(***************************************************************************)
(* Protocol constants (api.go, const block)                                *)
(***************************************************************************)
SOCKS_VERSION == 5
NO_ACCEPTABLE_METHODS == 255
NO_AUTHENTICATION == 0
USERNAME_PASSWORD_AUTH == 2
CONNECT == 1
STATUS_OK == 0
GENERAL_SOCKS_FAILURE == 1
CONN_NOT_ALLOWED_BY_RULESET == 2
NETWORK_UNREACHABLE == 3
HOST_UNREACHABLE == 4
CONN_REFUSED == 5
TTL_EXPIRED == 6
COMMAND_NOT_SUPPORTED == 7
ADDRESS_TYPE_NOT_SUPPORTED == 8
IP_V4 == 1
DOMAIN_NAME == 3
IP_V6 == 4
IPv4len == 4
IPv6len == 16
SubnegotiationVersion == 1

(***************************************************************************)
(* Bounds of the model                                                     *)
(***************************************************************************)
MaxConns == 2        \* client connections that ever reach the listener
MaxLimit == 2        \* largest open-connection ceiling tried
MaxAcceptErrs == 1   \* failing accepts per run
MaxDomainLen == 2    \* longest length-prefixed domain name tried
MaxPool == 3         \* candidate hosts known to discovery
MaxCallers == 2      \* goroutines that call the resolver
MaxCalls == 2        \* resolver calls per run

nil == "nil"

(***************************************************************************)
(* Sockets.  A net.Conn is the bytes still to be read from the peer (in),  *)
(* the bytes the peer has received (out), whether a Write fails (broken),  *)
(* and whether Close was called on it.  The peer sends nothing beyond in   *)
(* while a function runs, so a read of more than Len(in) bytes fails.      *)
(***************************************************************************)
NewConn == [in |-> <<>>, out |-> <<>>, broken |-> FALSE, closed |-> FALSE]

\* io.ReadFull(conn, buf) with len(buf) = n
ReadFull(conn, n) ==
    IF Len(conn.in) >= n
    THEN [ok |-> TRUE, data |-> SubSeq(conn.in, 1, n),
          conn |-> [conn EXCEPT !.in = SubSeq(conn.in, n + 1, Len(conn.in))]]
    ELSE [ok |-> FALSE, data |-> conn.in, conn |-> [conn EXCEPT !.in = <<>>]]

\* conn.Write(data)
Write(conn, data) ==
    IF conn.broken \/ conn.closed
    THEN [ok |-> FALSE, conn |-> conn]
    ELSE [ok |-> TRUE, conn |-> [conn EXCEPT !.out = conn.out \o data]]

\* conn.Close()
Close(conn) == [conn EXCEPT !.closed = TRUE]

\* a search that looks at the first element only
containsFirst(slice, item) == Len(slice) > 0 /\ slice[1] = item

\* contains(slice, item)
contains(slice, item) == \E i \in 1..Len(slice) : slice[i] = item

\* The value of a one-element set.  A name bound by "x \in {e}" holds the value
\* of e, computed once, where a LET would compute e again at every use.
Only(S) == CHOOSE x \in S : TRUE

(***************************************************************************)
(* greetClient (api.go 253-278)                                            *)
(***************************************************************************)
\* a greeting without an acceptable method is refused without a reply
greetMethodsSilent(conn, numMethods) ==
    Only({ IF ~methods.ok
           THEN [err |-> "error reading methods", conn |-> methods.conn]
           ELSE IF ~contains(methods.data, NO_AUTHENTICATION)
           THEN [err |-> "no supported authentication methods", conn |-> methods.conn]
           ELSE [err |-> nil,
                 conn |-> Write(methods.conn, <<SOCKS_VERSION, NO_AUTHENTICATION>>).conn]
         : methods \in {ReadFull(conn, numMethods)} })

\* api.go 265-277, after the version check
greetMethods(conn, numMethods) ==
    Only({ IF ~methods.ok
           THEN [err |-> "error reading methods", conn |-> methods.conn]
           ELSE IF ~contains(methods.data, NO_AUTHENTICATION)
           THEN [err |-> "no supported authentication methods",
                 conn |-> Write(methods.conn,
                                <<SOCKS_VERSION, NO_ACCEPTABLE_METHODS>>).conn]
           ELSE [err |-> nil,
                 conn |-> Write(methods.conn, <<SOCKS_VERSION, NO_AUTHENTICATION>>).conn]
         : methods \in {ReadFull(conn, numMethods)} })

greetClient(clientConn) ==
    Only({ IF ~header.ok
           THEN [err |-> "error reading header", conn |-> header.conn]
           ELSE IF header.data[1] # SOCKS_VERSION
           THEN [err |-> "unsupported SOCKS version", conn |-> header.conn]
           ELSE greetMethods(header.conn, header.data[2])
         : header \in {ReadFull(clientConn, 2)} })

(***************************************************************************)
(* authenticateRemoteSocks (api.go 280-329)                                *)
(***************************************************************************)
\* byte(len(s))
LenByte(s) == Len(s) % 256

\* authRequest, api.go 304-309
authRequest(username, password) ==
    <<SubnegotiationVersion, LenByte(username)>> \o username
        \o <<LenByte(password)>> \o password

\* a status reply that is read and not looked at
authStatusIgnored(conn) ==
    Only({ IF ~r2.ok
           THEN [err |-> "error reading authentication response", conn |-> r2.conn]
           ELSE [err |-> nil, conn |-> r2.conn]
         : r2 \in {ReadFull(conn, 2)} })

\* api.go 316-328
authStatus(conn) ==
    Only({ IF ~r2.ok
           THEN [err |-> "error reading authentication response", conn |-> r2.conn]
           ELSE IF r2.data[2] # STATUS_OK
           THEN [err |-> "authentication failed", conn |-> r2.conn]
           ELSE [err |-> nil, conn |-> r2.conn]
         : r2 \in {ReadFull(conn, 2)} })

\* api.go 302-314
authSubnegotiation(conn, username, password) ==
    Only({ IF ~w2.ok
           THEN [err |-> "error sending username/password", conn |-> w2.conn]
           ELSE authStatus(w2.conn)
         : w2 \in {Write(conn, authRequest(username, password))} })

\* api.go 291-300
authMethodSelection(conn, username, password) ==
    Only({ IF ~r1.ok
           THEN [err |-> "error reading authentication method selection",
                 conn |-> r1.conn]
           ELSE IF r1.data[2] # USERNAME_PASSWORD_AUTH
           THEN [err |-> "server did not select username/password authentication",
                 conn |-> r1.conn]
           ELSE authSubnegotiation(r1.conn, username, password)
         : r1 \in {ReadFull(conn, 2)} })

authenticateRemoteSocks(conn, username, password) ==
    Only({ IF ~w1.ok
           THEN [err |-> "error sending authentication methods", conn |-> w1.conn]
           ELSE authMethodSelection(w1.conn, username, password)
         : w1 \in {Write(conn, <<SOCKS_VERSION, 1, USERNAME_PASSWORD_AUTH>>)} })

(***************************************************************************)
(* readSocks5Request (api.go 394-442)                                      *)
(***************************************************************************)
\* a reader that leaves the two bytes of the port unread
readRequestRestNoPort(conn, requestHeader, addrLen) ==
    Only({ IF ~rest.ok
           THEN [err |-> "error reading the rest of the request", request |-> <<>>,
                 conn |-> Write(rest.conn, <<SOCKS_VERSION, GENERAL_SOCKS_FAILURE>>).conn]
           ELSE [err |-> nil, request |-> requestHeader \o rest.data,
                 conn |-> rest.conn]
         : rest \in {ReadFull(conn, addrLen)} })

\* requestRest and fullRequest, api.go 432-441
readRequestRest(conn, requestHeader, addrLen) ==
    Only({ IF ~rest.ok
           THEN [err |-> "error reading the rest of the request", request |-> <<>>,
                 conn |-> Write(rest.conn, <<SOCKS_VERSION, GENERAL_SOCKS_FAILURE>>).conn]
           ELSE [err |-> nil, request |-> requestHeader \o rest.data,
                 conn |-> rest.conn]
         : rest \in {ReadFull(conn, addrLen + 2)} })

\* a domain request whose length byte is read and not kept
readRequestDomainDropLength(conn, requestHeader) ==
    Only({ IF ~lengthByte.ok
           THEN [err |-> "error reading domain name length", request |-> <<>>,
                 conn |-> lengthByte.conn]
           ELSE readRequestRest(lengthByte.conn, requestHeader, lengthByte.data[1])
         : lengthByte \in {ReadFull(conn, 1)} })

\* case _DOMAIN_NAME, api.go 418-424: the length byte is appended to the header
readRequestDomain(conn, requestHeader) ==
    Only({ IF ~lengthByte.ok
           THEN [err |-> "error reading domain name length", request |-> <<>>,
                 conn |-> lengthByte.conn]
           ELSE readRequestRest(lengthByte.conn, requestHeader \o lengthByte.data,
                                lengthByte.data[1])
         : lengthByte \in {ReadFull(conn, 1)} })

\* a reader that takes every command for CONNECT
readSocks5RequestAnyCommand(conn) ==
    Only({ IF ~hdr.ok
           THEN [err |-> "error reading request header", request |-> <<>>,
                 conn |-> hdr.conn]
           ELSE IF hdr.data[1] # SOCKS_VERSION
           THEN [err |-> "unsupported SOCKS version", request |-> <<>>,
                 conn |-> hdr.conn]
           ELSE IF hdr.data[4] = IP_V4
           THEN readRequestRest(hdr.conn, hdr.data, IPv4len)
           ELSE IF hdr.data[4] = DOMAIN_NAME
           THEN readRequestDomain(hdr.conn, hdr.data)
           ELSE IF hdr.data[4] = IP_V6
           THEN readRequestRest(hdr.conn, hdr.data, IPv6len)
           ELSE [err |-> "unknown address type", request |-> <<>>,
                 conn |-> Write(hdr.conn,
                                <<SOCKS_VERSION, ADDRESS_TYPE_NOT_SUPPORTED>>).conn]
         : hdr \in {ReadFull(conn, 4)} })

readSocks5Request(conn) ==
    Only({ IF ~hdr.ok
           THEN [err |-> "error reading request header", request |-> <<>>,
                 conn |-> hdr.conn]
           ELSE IF hdr.data[1] # SOCKS_VERSION
           THEN [err |-> "unsupported SOCKS version", request |-> <<>>,
                 conn |-> hdr.conn]
           ELSE IF hdr.data[2] # CONNECT
           THEN [err |-> "unsupported command", request |-> <<>>,
                 conn |-> Write(hdr.conn, <<SOCKS_VERSION, COMMAND_NOT_SUPPORTED>>).conn]
           ELSE IF hdr.data[4] = IP_V4
           THEN readRequestRest(hdr.conn, hdr.data, IPv4len)
           ELSE IF hdr.data[4] = DOMAIN_NAME
           THEN readRequestDomain(hdr.conn, hdr.data)
           ELSE IF hdr.data[4] = IP_V6
           THEN readRequestRest(hdr.conn, hdr.data, IPv6len)
           ELSE [err |-> "unknown address type", request |-> <<>>,
                 conn |-> Write(hdr.conn,
                                <<SOCKS_VERSION, ADDRESS_TYPE_NOT_SUPPORTED>>).conn]
         : hdr \in {ReadFull(conn, 4)} })

(***************************************************************************)
(* readSocks5Response (api.go 444-516)                                     *)
(***************************************************************************)
\* the reply codes with a case of their own in the switch, api.go 462-485
KnownFailureReplies ==
    {GENERAL_SOCKS_FAILURE, CONN_NOT_ALLOWED_BY_RULESET, NETWORK_UNREACHABLE,
     HOST_UNREACHABLE, CONN_REFUSED, TTL_EXPIRED, COMMAND_NOT_SUPPORTED,
     ADDRESS_TYPE_NOT_SUPPORTED}

\* the error text of each case, api.go 462-488
replyError(reply) ==
    CASE reply = GENERAL_SOCKS_FAILURE -> "general SOCKS server failure"
      [] reply = CONN_NOT_ALLOWED_BY_RULESET -> "connection not allowed by ruleset"
      [] reply = NETWORK_UNREACHABLE -> "network unreachable"
      [] reply = HOST_UNREACHABLE -> "host unreachable"
      [] reply = CONN_REFUSED -> "connection refused"
      [] reply = TTL_EXPIRED -> "TTL expired"
      [] reply = COMMAND_NOT_SUPPORTED -> "command not supported"
      [] reply = ADDRESS_TYPE_NOT_SUPPORTED -> "address type not supported"
      [] OTHER -> "unknown reply"

\* requestRest and fullResponse, api.go 508-515
readResponseRest(conn, header, addrLen) ==
    Only({ IF ~rest.ok
           THEN [err |-> "error reading the rest of the response", response |-> <<>>,
                 conn |-> Write(rest.conn, <<SOCKS_VERSION, GENERAL_SOCKS_FAILURE>>).conn]
           ELSE [err |-> nil, response |-> header \o rest.data, conn |-> rest.conn]
         : rest \in {ReadFull(conn, addrLen + 2)} })

\* case _DOMAIN_NAME, api.go 495-500: the length byte is read and not kept
readResponseDomain(conn, header) ==
    Only({ IF ~lengthByte.ok
           THEN [err |-> "error reading domain name length", response |-> <<>>,
                 conn |-> lengthByte.conn]
           ELSE readResponseRest(lengthByte.conn, header, lengthByte.data[1])
         : lengthByte \in {ReadFull(conn, 1)} })

\* api.go 459-489: what is written for a reply code that is not success, to
\* conn, the socket the response was read from
failureReply(reply) ==
    IF reply \in KnownFailureReplies THEN <<SOCKS_VERSION, reply>>
    ELSE <<SOCKS_VERSION, GENERAL_SOCKS_FAILURE>>

readSocks5Response(conn) ==
    Only({ IF ~hdr.ok
           THEN [err |-> "error reading response header", response |-> <<>>,
                 conn |-> Write(hdr.conn, <<SOCKS_VERSION, GENERAL_SOCKS_FAILURE>>).conn]
           ELSE IF hdr.data[1] # SOCKS_VERSION
           THEN [err |-> "unsupported SOCKS version", response |-> <<>>,
                 conn |-> Write(hdr.conn, <<SOCKS_VERSION, GENERAL_SOCKS_FAILURE>>).conn]
           ELSE IF hdr.data[2] # STATUS_OK
           THEN [err |-> replyError(hdr.data[2]), response |-> <<>>,
                 conn |-> Write(hdr.conn, failureReply(hdr.data[2])).conn]
           ELSE IF hdr.data[4] = IP_V4
           THEN readResponseRest(hdr.conn, hdr.data, IPv4len)
           ELSE IF hdr.data[4] = DOMAIN_NAME
           THEN readResponseDomain(hdr.conn, hdr.data)
           ELSE IF hdr.data[4] = IP_V6
           THEN readResponseRest(hdr.conn, hdr.data, IPv6len)
           ELSE [err |-> "unknown address type", response |-> <<>>,
                 conn |-> Write(hdr.conn,
                                <<SOCKS_VERSION, ADDRESS_TYPE_NOT_SUPPORTED>>).conn]
         : hdr \in {ReadFull(conn, 4)} })

(***************************************************************************)
(* sendRemoteRequest (api.go 370-392)                                      *)
(***************************************************************************)
\* api.go 386-391
forwardResponse(clientConn, remoteConn, response) ==
    Only({ IF ~w2.ok
           THEN [err |-> "error forwarding response to client", cause |-> "write",
                 client |-> w2.conn, remote |-> remoteConn]
           ELSE [err |-> nil, cause |-> nil, client |-> w2.conn, remote |-> remoteConn]
         : w2 \in {Write(clientConn, response)} })

\* api.go 381-384
awaitResponse(clientConn, remoteConn) ==
    Only({ IF resp.err # nil
           THEN [err |-> "error reading response from remote server",
                 cause |-> resp.err, client |-> clientConn, remote |-> resp.conn]
           ELSE forwardResponse(clientConn, resp.conn, resp.response)
         : resp \in {readSocks5Response(remoteConn)} })

\* api.go 376-379
forwardRequest(clientConn, remoteConn, request) ==
    Only({ IF ~w1.ok
           THEN [err |-> "error forwarding request to remote server", cause |-> "write",
                 client |-> clientConn, remote |-> w1.conn]
           ELSE [err |-> nil, cause |-> nil, client |-> clientConn, remote |-> w1.conn]
         : w1 \in {Write(remoteConn, request)} })

\* api.go 371-379: the request is read from the client and written to the upstream
relayRequest(clientConn, remoteConn) ==
    Only({ IF req.err # nil
           THEN [err |-> "error reading request from client", cause |-> req.err,
                 client |-> req.conn, remote |-> remoteConn]
           ELSE forwardRequest(req.conn, remoteConn, req.request)
         : req \in {readSocks5Request(clientConn)} })

\* api.go 381-391: the upstream's reply is read and written to the client
relayResponse(clientConn, remoteConn) == awaitResponse(clientConn, remoteConn)

sendRemoteRequest(clientConn, remoteConn) ==
    Only({ IF p.err # nil THEN p ELSE relayResponse(p.client, p.remote)
         : p \in {relayRequest(clientConn, remoteConn)} })

(***************************************************************************)
(* What the peers send.  Each set holds the chunks that may arrive on a    *)
(* socket while one function reads from it: well-formed frames of every    *)
(* address type, malformed and truncated ones, and frames followed by      *)
(* further bytes.                                                          *)
(***************************************************************************)
Port == <<0, 80>>
Payload == <<200, 201>>
IPv4Addr == <<93, 184, 216, 34>>
IPv6Addr == [i \in 1..IPv6len |-> 31 + i]
DomainLens == (0..MaxDomainLen) \cup {255}
DomainAddr(n) == <<n>> \o [i \in 1..n |-> (96 + i) % 256]
AddrOf(atyp, n) ==
    IF atyp = IP_V4 THEN IPv4Addr ELSE IF atyp = IP_V6 THEN IPv6Addr ELSE DomainAddr(n)
AddrKinds ==
    {<<IP_V4, 0>>, <<IP_V6, 0>>} \cup {<<DOMAIN_NAME, n>> : n \in DomainLens}

ClientGreetings ==
    {<<5, 1, 0>>, <<5, 2, 2, 0>>, <<5, 1, 2>>, <<5, 2, 1, 2>>, <<5, 0>>,
     <<4, 1, 0>>, <<4, 1, 2>>, <<5>>, <<5, 2, 0>>, <<>>, <<5, 1, 0, 5, 1, 0>>}

Request(ver, cmd, k) == <<ver, cmd, 0, k[1]>> \o AddrOf(k[1], k[2]) \o Port
ValidRequests == {Request(5, CONNECT, k) : k \in AddrKinds}
ClientRequests ==
    ValidRequests
    \cup {Request(5, CONNECT, k) \o Payload : k \in {<<IP_V4, 0>>, <<DOMAIN_NAME, 1>>}}
    \cup {Request(5, 2, <<IP_V4, 0>>), Request(5, 3, <<DOMAIN_NAME, 1>>),
          Request(4, CONNECT, <<IP_V4, 0>>), Request(4, 2, <<IP_V4, 0>>),
          <<5, CONNECT, 0, 2>> \o IPv4Addr \o Port,
          <<5, 2, 0, 9>> \o IPv4Addr \o Port,
          <<5, CONNECT, 0, 0>> \o IPv4Addr \o Port,
          <<5, CONNECT, 0>>, <<5, CONNECT, 0, IP_V4, 93, 184>>,
          <<5, CONNECT, 0, DOMAIN_NAME>>, <<5, CONNECT, 0, DOMAIN_NAME, 2, 97>>,
          <<5, CONNECT, 0, IP_V6, 32, 33, 34>>, <<>>}

UpstreamAuthReplies ==
    {<<5, 2, 1, 0>>, <<5, 2, 1, 1>>, <<5, 2, 1, 255>>, <<5, 2, 0, 0>>, <<4, 2, 1, 0>>,
     <<5, 0>>, <<5, 255>>, <<5, 0, 1, 0>>, <<5, 2>>, <<5, 2, 1>>, <<5>>, <<>>}

Reply(ver, rep, k) == <<ver, rep, 0, k[1]>> \o AddrOf(k[1], k[2]) \o Port
ReplyCodes == 0..9
UpstreamReplies ==
    {Reply(5, STATUS_OK, k) : k \in AddrKinds}
    \cup {Reply(5, STATUS_OK, k) \o Payload : k \in {<<IP_V4, 0>>, <<DOMAIN_NAME, 1>>}}
    \cup {Reply(5, rep, <<IP_V4, 0>>) : rep \in ReplyCodes}
    \cup {Reply(5, CONN_REFUSED, <<DOMAIN_NAME, 1>>), <<5, HOST_UNREACHABLE>>,
          Reply(4, STATUS_OK, <<IP_V4, 0>>),
          <<5, STATUS_OK, 0, 2>> \o IPv4Addr \o Port,
          <<5, STATUS_OK, 0>>, <<5, STATUS_OK, 0, IP_V4, 1, 2>>,
          <<5, STATUS_OK, 0, DOMAIN_NAME>>, <<5, STATUS_OK, 0, DOMAIN_NAME, 2, 97>>, <<>>}

\* addresses as the pieces the normalisation of getTcpConn looks at
Scheme == "socks5://"
Colon == ":"
DefaultPort == "1080"
\* what an injected serverFinder may return
FinderResults ==
    {[host |-> <<"nord1", Colon, DefaultPort>>, err |-> nil],
     [host |-> <<Scheme, "found">>, err |-> nil],
     [host |-> <<>>, err |-> "no socks server found"]}
\* how a copy loop of the relay ends
CopyOutcomes == {"eof", "reset", "other"}

(***************************************************************************)
(* One connection's session: the state handleConnection works on.          *)
(***************************************************************************)
\* stage is one of greet, connect, authenticate, request, response, relay, returned
NewSession ==
    [stage |-> "greet", client |-> NewConn, remote |-> NewConn, hasRemote |-> FALSE,
     remoteHost |-> <<>>, err |-> nil, cause |-> nil, finderCalls |-> 0, dials |-> 0,
     copier |-> [d \in {"c2r", "r2c"} |->
                   [pc |-> "idle", sends |-> <<>>, outcome |-> "none"]],
     done |-> <<>>, syncPc |-> "idle", first |-> "none", ended |-> <<>>]

\* the peer's next chunk arrives on a socket; the peer may also go away (brk)
Arrive(conn, chunk, brk) ==
    [conn EXCEPT !.in = conn.in \o chunk, !.broken = conn.broken \/ brk]

\* a stage failed: handleConnection returns (defer remoteConn.Close())
Fail(s, err, cause) ==
    [s EXCEPT !.stage = "returned", !.err = err, !.cause = cause,
              !.remote = IF s.hasRemote THEN Close(s.remote) ELSE s.remote]

\* handleConnection, api.go 180-187
stageGreet(s) ==
    Only({ IF r.err # nil
           THEN Fail([s EXCEPT !.client = r.conn], "error greeting client", r.err)
           ELSE [s EXCEPT !.client = r.conn, !.stage = "connect"]
         : r \in {greetClient(s.client)} })

\* strings.TrimPrefix(remoteHost, "socks5://")
TrimPrefix(host) ==
    IF Len(host) > 0 /\ host[1] = Scheme THEN Tail(host) ELSE host

\* getTcpConn, api.go 239-242
normalize(host) ==
    LET h == TrimPrefix(host) IN
    IF contains(h, Colon) THEN h ELSE h \o <<Colon, DefaultPort>>

\* getTcpConn (api.go 231-251) as called from handleConnection (api.go 189-197)
stageGetTcpConn(s, srv, found, dialOk) ==
    IF srv.RemoteHost = <<>> /\ found.err # nil
    THEN Fail([s EXCEPT !.finderCalls = @ + 1], found.err, found.err)
    ELSE Only({ IF ~dialOk
                THEN Fail(u, "error connecting to remote server", "dial")
                ELSE [u EXCEPT !.stage = "authenticate", !.hasRemote = TRUE]
              : u \in {[s EXCEPT
                          !.finderCalls = IF srv.RemoteHost = <<>> THEN @ + 1 ELSE @,
                          !.remoteHost = normalize(IF srv.RemoteHost = <<>>
                                                   THEN found.host
                                                   ELSE srv.RemoteHost),
                          !.dials = @ + 1]} })

\* handleConnection, api.go 199-208
stageAuthenticate(s, srv) ==
    Only({ IF r.err # nil
           THEN Fail([s EXCEPT !.remote = r.conn],
                     "error authenticating with remote server", r.err)
           ELSE [s EXCEPT !.remote = r.conn, !.stage = "request"]
         : r \in {authenticateRemoteSocks(s.remote, srv.RemoteUser, srv.RemotePass)} })

\* handleConnection, api.go 210-218
stageSendRemoteRequest(s) ==
    Only({ IF r.err # nil
           THEN Fail([s EXCEPT !.client = r.client, !.remote = r.remote],
                     r.err, r.cause)
           ELSE [s EXCEPT !.client = r.client, !.remote = r.remote, !.stage = "relay"]
         : r \in {sendRemoteRequest(s.client, s.remote)} })

\* the first half of sendRemoteRequest, up to the write to the upstream
stageRelayRequest(s) ==
    Only({ IF r.err # nil
           THEN Fail([s EXCEPT !.client = r.client, !.remote = r.remote],
                     r.err, r.cause)
           ELSE [s EXCEPT !.client = r.client, !.remote = r.remote,
                          !.stage = "response"]
         : r \in {relayRequest(s.client, s.remote)} })

\* the second half of sendRemoteRequest, from the read of the upstream's reply
stageRelayResponse(s) ==
    Only({ IF r.err # nil
           THEN Fail([s EXCEPT !.client = r.client, !.remote = r.remote],
                     r.err, r.cause)
           ELSE [s EXCEPT !.client = r.client, !.remote = r.remote, !.stage = "relay"]
         : r \in {relayResponse(s.client, s.remote)} })

(***************************************************************************)
(* syncConns (api.go 331-368): two copy goroutines and the channel done    *)
(* of capacity 1.                                                          *)
(***************************************************************************)
Directions == {"c2r", "r2c"}

\* a goroutine that reports ECONNRESET like any other error
copierSendsNoReset(outcome) ==
    IF outcome = "eof" THEN <<nil>> ELSE <<"error copying data">>

\* what one copy goroutine sends on done, in order (api.go 337-345, 351-359):
\* after done <- nil for ECONNRESET the goroutine does not return
copierSends(outcome) ==
    CASE outcome = "eof" -> <<nil>>
      [] outcome = "reset" -> <<nil, "error copying data">>
      [] OTHER -> <<"error copying data">>

\* api.go 332-360: make(chan error, 1) and the two go statements
syncStart(s) ==
    [s EXCEPT !.copier = [d \in Directions |->
                            [pc |-> "copy", sends |-> <<>>, outcome |-> "none"]],
              !.done = <<>>, !.syncPc = "recv"]

\* io.Copy(dst, src) returns: what the source sent has been written to dst
copierFinish(s, d, outcome) ==
    IF d = "c2r"
    THEN [s EXCEPT !.client.in = <<>>, !.ended = Append(@, d),
                   !.remote = Write(s.remote, s.client.in).conn,
                   !.copier[d] = [pc |-> "send", sends |-> copierSends(outcome),
                                  outcome |-> outcome]]
    ELSE [s EXCEPT !.remote.in = <<>>, !.ended = Append(@, d),
                   !.client = Write(s.client, s.remote.in).conn,
                   !.copier[d] = [pc |-> "send", sends |-> copierSends(outcome),
                                  outcome |-> outcome]]

\* whether io.Copy can end this way: a closed socket gives an error that is not
\* ECONNRESET, and a failed write is never a clean end
canFinish(s, d, outcome) ==
    /\ s.copier[d].pc = "copy"
    /\ (s.client.closed \/ s.remote.closed) => outcome = "other"
    /\ (d = "c2r" /\ s.remote.broken /\ s.client.in # <<>>) => outcome # "eof"
    /\ (d = "r2c" /\ s.client.broken /\ s.remote.in # <<>>) => outcome # "eof"

\* done <- v on the channel of capacity 1
canSend(s, d) == s.copier[d].pc = "send" /\ Len(s.done) < 1

copierSend(s, d) ==
    [s EXCEPT !.done = Append(s.done, Head(s.copier[d].sends)),
              !.copier[d] = [pc |-> IF Len(s.copier[d].sends) = 1 THEN "exit"
                                    ELSE "send",
                             sends |-> Tail(s.copier[d].sends),
                             outcome |-> s.copier[d].outcome]]

\* the goroutine of direction d has sent on done
hasSent(s, d) ==
    /\ s.copier[d].pc \in {"send", "exit"}
    /\ Len(s.copier[d].sends) < Len(copierSends(s.copier[d].outcome))

\* a syncConns that returns the received value without closing the sockets
syncRecvNoClose(s) ==
    [s EXCEPT !.done = Tail(s.done), !.syncPc = "returned",
              !.first = CHOOSE d \in Directions : hasSent(s, d),
              !.stage = "returned",
              !.err = IF Head(s.done) # nil THEN "error syncing connections" ELSE nil,
              !.cause = Head(s.done)]

\* api.go 363-367 and handleConnection, api.go 220-229; first is the direction
\* whose value is received
syncRecv(s) ==
    [s EXCEPT !.done = Tail(s.done), !.syncPc = "returned",
              !.first = CHOOSE d \in Directions : hasSent(s, d),
              !.client = Close(s.client), !.remote = Close(s.remote),
              !.stage = "returned",
              !.err = IF Head(s.done) # nil THEN "error syncing connections" ELSE nil,
              !.cause = Head(s.done)]

\* syncConns when the copy loop of direction d is the first to end
stageSyncConns(s, d, outcome) ==
    Only({ syncRecv(s3) : s3 \in {copierSend(s2, d) :
                         s2 \in {copierFinish(s1, d, outcome) :
                         s1 \in {syncStart(s)}}} })

(***************************************************************************)
(* handleConnection (api.go 179-229) from the first read to its return,    *)
(* for peers that behave as env says.                                      *)
(***************************************************************************)
\* api.go 220-229
handleRelay(s, env) ==
    IF s.stage = "returned" THEN s ELSE stageSyncConns(s, env.first, env.outcome)

\* api.go 210-218
handleRequest(s, env) ==
    IF s.stage = "returned" THEN s
    ELSE Only({ handleRelay(t, env)
              : t \in {stageSendRemoteRequest(u) :
                u \in {[s EXCEPT !.client = Arrive(@, env.request, FALSE),
                                 !.remote = Arrive(@, env.reply, FALSE)]}} })

\* api.go 199-208
handleAuthenticate(s, srv, env) ==
    IF s.stage = "returned" THEN s
    ELSE Only({ handleRequest(t, env)
              : t \in {stageAuthenticate(u, srv) :
                u \in {[s EXCEPT !.remote = Arrive(@, env.auth, FALSE)]}} })

\* api.go 189-197
handleConnect(s, srv, env) ==
    IF s.stage = "returned" THEN s
    ELSE Only({ handleAuthenticate(t, srv, env)
              : t \in {stageGetTcpConn(s, srv, env.found, env.dialOk)} })

handleConnection(srv, env) ==
    Only({ handleConnect(t, srv, env)
         : t \in {stageGreet(u) :
           u \in {[NewSession EXCEPT
                     !.client = Arrive(NewConn, env.greeting, FALSE)]}} })

GoodFinder == [host |-> <<"nord1", Colon, DefaultPort>>, err |-> nil]
GoodEnv ==
    [greeting |-> <<5, 1, 0>>, found |-> GoodFinder, dialOk |-> TRUE,
     auth |-> <<5, 2, 1, 0>>, request |-> Request(5, CONNECT, <<IP_V4, 0>>),
     reply |-> Reply(5, STATUS_OK, <<IP_V4, 0>>), first |-> "c2r", outcome |-> "eof"]
\* the sessions the connections of Spec go through
ServerEnvs ==
    {GoodEnv,
     [GoodEnv EXCEPT !.greeting = <<5, 1, 2>>],
     [GoodEnv EXCEPT !.auth = <<5, 2, 1, 1>>]}

(***************************************************************************)
(* State                                                                   *)
(***************************************************************************)
Conns == 1..MaxConns
Ids == 0..MaxConns

VARIABLES
    server,            \* the Server's configuration: set by NewServer, then read only
    Addr,              \* Server.Addr
    ctxDone,           \* the context given to Start is cancelled
    startPc,           \* where Start is: listen, check, accept, acquire, returned
    startResult,       \* what Start returned
    connBudget,        \* clients that will ever connect
    accepted,          \* connections accepted so far; the next one is accepted + 1
    acceptErrs,        \* accepts that failed so far
    pending,           \* the accepted connection Start holds before its go statement
    semaphore,         \* number of elements in the channel semaphore
    ConnCount,         \* Server.ConnCount
    OpenConnCount,     \* Server.OpenConnCount
    connPc,            \* where each connection's goroutine is
    connId,            \* connId of each connection's goroutine
    session,           \* each connection's sockets and stage
    onConnectCalls,    \* per id, how often onConnect was started
    onDisconnectCalls, \* per id, how often onDisconnect was started
    onErrorCalls,      \* per id, how often onError was started
    observed,          \* per connection, what its peers had sent when a stage began
    servers,           \* the package-level cache of FindNordVpnServer
    reachable,         \* the hosts a TCP connect to port 1080 reaches
    finder,            \* per caller, where its call of FindNordVpnServer is
    calls              \* calls of FindNordVpnServer started so far

serverVars == <<server, Addr, ctxDone, startPc, startResult, connBudget, accepted,
                acceptErrs, pending, semaphore, ConnCount, OpenConnCount, connPc,
                connId, session, onConnectCalls, onDisconnectCalls, onErrorCalls,
                observed>>
resolverVars == <<servers, reachable, finder, calls>>
vars == <<serverVars, resolverVars>>

\* NewServer (api.go 97-120) and the options (api.go 59-92)
ServerConfig(host, user, pass, limit, callbacks) ==
    [RemoteHost |-> host, RemoteUser |-> user, RemotePass |-> pass,
     openConnLimit |-> limit,
     onConnect |-> "onConnect" \in callbacks,
     onDisconnect |-> "onDisconnect" \in callbacks,
     onError |-> "onError" \in callbacks]

CallbackConfigs == {{}, {"onConnect", "onDisconnect", "onError"}}

\* the bytes available to each stage of a session as it began; how much had been
\* written to the upstream before sendRemoteRequest (remoteMark), and to the client
\* (clientMark) and the upstream (upstreamMark) before it read the reply
NothingObserved ==
    [greetIn |-> <<>>, authIn |-> <<>>, reqIn |-> <<>>, replyIn |-> <<>>,
     clientMark |-> 0, remoteMark |-> 0, upstreamMark |-> 0]

InitServerState(budget) ==
    /\ Addr = ":1080"
    /\ ctxDone = FALSE
    /\ startPc = "listen"
    /\ startResult = "running"
    /\ connBudget = budget
    /\ accepted = 0
    /\ acceptErrs = 0
    /\ pending = 0
    /\ semaphore = 0
    /\ ConnCount = 0
    /\ OpenConnCount = 0
    /\ connPc = [c \in Conns |-> "none"]
    /\ connId = [c \in Conns |-> 0]
    /\ session = [c \in Conns |-> NewSession]
    /\ onConnectCalls = [i \in Ids |-> 0]
    /\ onDisconnectCalls = [i \in Ids |-> 0]
    /\ onErrorCalls = [i \in Ids |-> 0]
    /\ observed = [c \in Conns |-> NothingObserved]

Callers == 1..MaxCallers
Hosts == 1..MaxPool

\* a caller that is not in FindNordVpnServer
IdleCall ==
    [pc |-> "idle", randIdx |-> 0, chosen |-> 0, host |-> <<>>, err |-> nil,
     pool0 |-> <<>>, evicted |-> {}]

IdleResolver ==
    /\ servers = <<>>
    /\ reachable = {}
    /\ finder = [k \in Callers |-> IdleCall]
    /\ calls = 0

Init ==
    /\ \E limit \in 0..MaxLimit, cb \in CallbackConfigs :
          server = ServerConfig(<<>>, <<117>>, <<112>>, limit, cb)
    /\ InitServerState(MaxConns)
    /\ IdleResolver

(***************************************************************************)
(* Server.Start (api.go 122-177)                                           *)
(***************************************************************************)
\* an acquisition that never waits for room in the channel
acquireNonBlocking(sem, limit) ==
    [ok |-> TRUE, sem |-> IF sem < limit THEN sem + 1 ELSE sem]

\* semaphore <- struct{}{} at api.go 153: proceeds when the channel has room
acquire(sem, limit) ==
    IF limit = 0 THEN [ok |-> TRUE, sem |-> sem]
    ELSE [ok |-> sem < limit, sem |-> sem + 1]

\* semaphore <- struct{}{} at api.go 173: a second send on the same channel
release(sem, limit) ==
    IF limit = 0 THEN [ok |-> TRUE, sem |-> sem]
    ELSE [ok |-> sem < limit, sem |-> sem + 1]

\* go s.onError(id, conn, err) when the callback is set
fireOnError(id) ==
    onErrorCalls' = IF server.onError THEN [onErrorCalls EXCEPT ![id] = @ + 1]
                    ELSE onErrorCalls

\* api.go 123-133
Listen ==
    /\ startPc = "listen"
    /\ \/ /\ startPc' = "check"
          /\ Addr' = "socks5://127.0.0.1:1080"
          /\ UNCHANGED startResult
       \/ /\ startPc' = "returned"
          /\ startResult' = "listen error"
          /\ UNCHANGED Addr
    /\ UNCHANGED <<server, ctxDone, connBudget, accepted, acceptErrs, pending,
                   semaphore, ConnCount, OpenConnCount, connPc, connId, session,
                   onConnectCalls, onDisconnectCalls, onErrorCalls, observed, resolverVars>>

\* the caller cancels the context
Cancel ==
    /\ ~ctxDone
    /\ ctxDone' = TRUE
    /\ UNCHANGED <<server, Addr, startPc, startResult, connBudget, accepted,
                   acceptErrs, pending, semaphore, ConnCount, OpenConnCount, connPc,
                   connId, session, onConnectCalls, onDisconnectCalls, onErrorCalls,
                   observed, resolverVars>>

\* an accept loop whose check never sees the cancellation
CheckCancelIgnored ==
    /\ startPc = "check"
    /\ startPc' = "accept"
    /\ UNCHANGED <<server, Addr, ctxDone, startResult, connBudget, accepted, acceptErrs,
                   pending, semaphore, ConnCount, OpenConnCount, connPc, connId, session,
                   onConnectCalls, onDisconnectCalls, onErrorCalls, observed, resolverVars>>

\* api.go 136-140
CheckCancel ==
    /\ startPc = "check"
    /\ IF ctxDone THEN startPc' = "returned" /\ startResult' = nil
                  ELSE startPc' = "accept" /\ UNCHANGED startResult
    /\ UNCHANGED <<server, Addr, ctxDone, connBudget, accepted, acceptErrs, pending,
                   semaphore, ConnCount, OpenConnCount, connPc, connId, session,
                   onConnectCalls, onDisconnectCalls, onErrorCalls, observed, resolverVars>>

\* api.go 142, err == nil
Accept ==
    /\ startPc = "accept"
    /\ accepted < connBudget
    /\ accepted' = accepted + 1
    /\ pending' = accepted + 1
    /\ connPc' = [connPc EXCEPT ![accepted + 1] = "accepted"]
    /\ startPc' = "acquire"
    /\ UNCHANGED <<server, Addr, ctxDone, startResult, connBudget, acceptErrs,
                   semaphore, ConnCount, OpenConnCount, connId, session,
                   onConnectCalls, onDisconnectCalls, onErrorCalls, observed, resolverVars>>

\* an accept loop that gives up at the first failed accept
AcceptErrorFatal ==
    /\ startPc = "accept"
    /\ acceptErrs < MaxAcceptErrs
    /\ acceptErrs' = acceptErrs + 1
    /\ fireOnError(0)
    /\ startPc' = "returned"
    /\ startResult' = "accept error"
    /\ UNCHANGED <<server, Addr, ctxDone, connBudget, accepted, pending,
                   semaphore, ConnCount, OpenConnCount, connPc, connId, session,
                   onConnectCalls, onDisconnectCalls, observed, resolverVars>>

\* api.go 142-149, err != nil
AcceptError ==
    /\ startPc = "accept"
    /\ acceptErrs < MaxAcceptErrs
    /\ acceptErrs' = acceptErrs + 1
    /\ fireOnError(0)
    /\ startPc' = "check"
    /\ UNCHANGED <<server, Addr, ctxDone, startResult, connBudget, accepted, pending,
                   semaphore, ConnCount, OpenConnCount, connPc, connId, session,
                   onConnectCalls, onDisconnectCalls, observed, resolverVars>>

\* api.go 151-155: acquire, then the go statement
AcquireSemaphore ==
    /\ startPc = "acquire"
    /\ \E a \in {acquire(semaphore, server.openConnLimit)} :
          /\ a.ok
          /\ semaphore' = a.sem
    /\ connPc' = [connPc EXCEPT ![pending] = "spawned"]
    /\ pending' = 0
    /\ startPc' = "check"
    /\ UNCHANGED <<server, Addr, ctxDone, startResult, connBudget, accepted,
                   acceptErrs, ConnCount, OpenConnCount, connId, session,
                   onConnectCalls, onDisconnectCalls, onErrorCalls, observed, resolverVars>>

\* a counter whose Add returns the value before the addition
ConnAssignIdOld(c) ==
    /\ connPc[c] = "spawned"
    /\ ConnCount' = ConnCount + 1
    /\ connId' = [connId EXCEPT ![c] = ConnCount]
    /\ connPc' = [connPc EXCEPT ![c] = "count"]
    /\ UNCHANGED <<server, Addr, ctxDone, startPc, startResult, connBudget, accepted,
                   acceptErrs, pending, semaphore, OpenConnCount, session,
                   onConnectCalls, onDisconnectCalls, onErrorCalls, observed, resolverVars>>

\* api.go 156
ConnAssignId(c) ==
    /\ connPc[c] = "spawned"
    /\ ConnCount' = ConnCount + 1
    /\ connId' = [connId EXCEPT ![c] = ConnCount + 1]
    /\ connPc' = [connPc EXCEPT ![c] = "count"]
    /\ UNCHANGED <<server, Addr, ctxDone, startPc, startResult, connBudget, accepted,
                   acceptErrs, pending, semaphore, OpenConnCount, session,
                   onConnectCalls, onDisconnectCalls, onErrorCalls, observed, resolverVars>>

\* api.go 157-161
ConnOpen(c) ==
    /\ connPc[c] = "count"
    /\ OpenConnCount' = OpenConnCount + 1
    /\ onConnectCalls' = IF server.onConnect
                         THEN [onConnectCalls EXCEPT ![connId[c]] = @ + 1]
                         ELSE onConnectCalls
    /\ connPc' = [connPc EXCEPT ![c] = "handle"]
    /\ UNCHANGED <<server, Addr, ctxDone, startPc, startResult, connBudget, accepted,
                   acceptErrs, pending, semaphore, ConnCount, connId, session,
                   onDisconnectCalls, onErrorCalls, observed, resolverVars>>

\* api.go 163: the whole of handleConnection
ConnHandle(c) ==
    /\ connPc[c] = "handle"
    /\ session[c].stage = "greet"
    /\ \E env \in ServerEnvs : \E s \in {handleConnection(server, env)} :
          /\ session' = [session EXCEPT ![c] = s]
          /\ IF s.err # nil THEN fireOnError(connId[c]) ELSE UNCHANGED onErrorCalls
    /\ UNCHANGED <<server, Addr, ctxDone, startPc, startResult, connBudget, accepted,
                   acceptErrs, pending, semaphore, ConnCount, OpenConnCount, connPc,
                   connId, onConnectCalls, onDisconnectCalls, observed, resolverVars>>

\* a teardown that is left out when the handling failed
ConnCloseOnSuccess(c) ==
    /\ connPc[c] = "handle"
    /\ session[c].stage = "returned"
    /\ onDisconnectCalls' = IF server.onDisconnect /\ session[c].err = nil
                            THEN [onDisconnectCalls EXCEPT ![connId[c]] = @ + 1]
                            ELSE onDisconnectCalls
    /\ session' = IF session[c].err = nil
                  THEN [session EXCEPT ![c].client = Close(@)]
                  ELSE session
    /\ connPc' = [connPc EXCEPT ![c] = "closed"]
    /\ UNCHANGED <<server, Addr, ctxDone, startPc, startResult, connBudget, accepted,
                   acceptErrs, pending, semaphore, ConnCount, OpenConnCount, connId,
                   onConnectCalls, onErrorCalls, observed, resolverVars>>

\* api.go 165-169
ConnClose(c) ==
    /\ connPc[c] = "handle"
    /\ session[c].stage = "returned"
    /\ onDisconnectCalls' = IF server.onDisconnect
                            THEN [onDisconnectCalls EXCEPT ![connId[c]] = @ + 1]
                            ELSE onDisconnectCalls
    /\ session' = [session EXCEPT ![c].client = Close(@)]
    /\ connPc' = [connPc EXCEPT ![c] = "closed"]
    /\ UNCHANGED <<server, Addr, ctxDone, startPc, startResult, connBudget, accepted,
                   acceptErrs, pending, semaphore, ConnCount, OpenConnCount, connId,
                   onConnectCalls, onErrorCalls, observed, resolverVars>>

\* api.go 170
ConnDecrement(c) ==
    /\ connPc[c] = "closed"
    /\ OpenConnCount' = OpenConnCount - 1
    /\ connPc' = [connPc EXCEPT ![c] = "release"]
    /\ UNCHANGED <<server, Addr, ctxDone, startPc, startResult, connBudget, accepted,
                   acceptErrs, pending, semaphore, ConnCount, connId, session,
                   onConnectCalls, onDisconnectCalls, onErrorCalls, observed, resolverVars>>

\* api.go 171-174
ConnRelease(c) ==
    /\ connPc[c] = "release"
    /\ \E r \in {release(semaphore, server.openConnLimit)} :
          /\ r.ok
          /\ semaphore' = r.sem
    /\ connPc' = [connPc EXCEPT ![c] = "done"]
    /\ UNCHANGED <<server, Addr, ctxDone, startPc, startResult, connBudget, accepted,
                   acceptErrs, pending, ConnCount, OpenConnCount, connId, session,
                   onConnectCalls, onDisconnectCalls, onErrorCalls, observed, resolverVars>>

(***************************************************************************)
(* handleConnection stage by stage (api.go 179-229).  Each action is one   *)
(* call made by handleConnection, with what the peers send while it runs.  *)
(***************************************************************************)
\* what a stage of connection c leaves alone
stageFrame ==
    <<server, Addr, ctxDone, startPc, startResult, connBudget, accepted, acceptErrs,
      pending, semaphore, ConnCount, OpenConnCount, connPc, connId, onConnectCalls,
      onDisconnectCalls, resolverVars>>

\* a handleConnection that returns on a failure without calling onError
finishStageQuiet(c, s) ==
    /\ session' = [session EXCEPT ![c] = s]
    /\ UNCHANGED onErrorCalls

\* the stage's outcome is stored, and reported through onError when it failed
finishStage(c, s) ==
    /\ session' = [session EXCEPT ![c] = s]
    /\ IF s.stage = "returned" /\ s.err # nil
       THEN fireOnError(connId[c])
       ELSE UNCHANGED onErrorCalls

\* api.go 181: greetClient(clientConn)
SessGreet(c) ==
    /\ connPc[c] = "handle"
    /\ session[c].stage = "greet"
    /\ \E chunk \in ClientGreetings :
       \E s0 \in {[session[c] EXCEPT !.client = Arrive(@, chunk, FALSE)]} :
          /\ observed' = [observed EXCEPT ![c].greetIn = s0.client.in]
          /\ \E s \in {stageGreet(s0)} : finishStage(c, s)
    /\ UNCHANGED stageFrame

\* api.go 190: s.getTcpConn(ctx)
SessGetTcpConn(c) ==
    /\ connPc[c] = "handle"
    /\ session[c].stage = "connect"
    /\ \E found \in FinderResults, dialOk \in BOOLEAN :
       \E s \in {stageGetTcpConn(session[c], server, found, dialOk)} :
          finishStage(c, s)
    /\ UNCHANGED <<stageFrame, observed>>

\* api.go 201: authenticateRemoteSocks(remoteConn, s.RemoteUser, s.RemotePass)
SessAuthenticate(c) ==
    /\ connPc[c] = "handle"
    /\ session[c].stage = "authenticate"
    /\ \E chunk \in UpstreamAuthReplies, brk \in BOOLEAN :
       \E s0 \in {[session[c] EXCEPT !.remote = Arrive(@, chunk, brk)]} :
          /\ observed' = [observed EXCEPT ![c].authIn = s0.remote.in]
          /\ \E s \in {stageAuthenticate(s0, server)} : finishStage(c, s)
    /\ UNCHANGED stageFrame

\* api.go 211, first half: sendRemoteRequest reads the client's request and
\* writes it to the upstream (api.go 371-379)
RelayRequestOf(c, requests) ==
    /\ connPc[c] = "handle"
    /\ session[c].stage = "request"
    /\ \E req \in requests, rbrk \in BOOLEAN :
       \E s0 \in {[session[c] EXCEPT !.client = Arrive(@, req, FALSE),
                                     !.remote = Arrive(@, <<>>, rbrk)]} :
          /\ observed' = [observed EXCEPT ![c].reqIn = s0.client.in,
                                          ![c].remoteMark = Len(s0.remote.out)]
          /\ \E s \in {stageRelayRequest(s0)} : finishStage(c, s)
    /\ UNCHANGED stageFrame

SessRelayRequest(c) == RelayRequestOf(c, ClientRequests)

\* api.go 211, second half: sendRemoteRequest reads the upstream's reply and
\* writes it to the client (api.go 381-391)
SessRelayResponse(c) ==
    /\ connPc[c] = "handle"
    /\ session[c].stage = "response"
    /\ \E reply \in UpstreamReplies, cbrk \in BOOLEAN :
       \E s0 \in {[session[c] EXCEPT !.client = Arrive(@, <<>>, cbrk),
                                     !.remote = Arrive(@, reply, FALSE)]} :
          /\ observed' = [observed EXCEPT ![c].replyIn = s0.remote.in,
                                          ![c].clientMark = Len(s0.client.out),
                                          ![c].upstreamMark = Len(s0.remote.out)]
          /\ \E s \in {stageRelayResponse(s0)} : finishStage(c, s)
    /\ UNCHANGED stageFrame

\* api.go 221: syncConns, from its start to its return
SessSyncConns(c) ==
    /\ connPc[c] = "handle"
    /\ session[c].stage = "relay"
    /\ session[c].syncPc = "idle"
    /\ \E d \in Directions, outcome \in CopyOutcomes :
       \E s \in {stageSyncConns(session[c], d, outcome)} : finishStage(c, s)
    /\ UNCHANGED <<stageFrame, observed>>

\* api.go 221 and 332-360: syncConns starts its two goroutines
SessSyncStart(c) ==
    /\ connPc[c] = "handle"
    /\ session[c].stage = "relay"
    /\ session[c].syncPc = "idle"
    /\ session' = [session EXCEPT ![c] = syncStart(@)]
    /\ UNCHANGED <<stageFrame, onErrorCalls, observed>>

\* api.go 336 and 350: io.Copy returns in one of the goroutines
SessCopierFinish(c, d) ==
    /\ \E outcome \in CopyOutcomes, chunk \in {<<>>, Payload} :
          /\ canFinish(session[c], d, outcome)
          /\ \E s0 \in {IF session[c].client.closed \/ session[c].remote.closed
                        THEN session[c]
                        ELSE IF d = "c2r"
                        THEN [session[c] EXCEPT !.client = Arrive(@, chunk, FALSE)]
                        ELSE [session[c] EXCEPT !.remote = Arrive(@, chunk, FALSE)]} :
                session' = [session EXCEPT ![c] = copierFinish(s0, d, outcome)]
    /\ UNCHANGED <<stageFrame, onErrorCalls, observed>>

\* api.go 337-345 and 351-359: one send on done
SessCopierSend(c, d) ==
    /\ canSend(session[c], d)
    /\ session' = [session EXCEPT ![c] = copierSend(@, d)]
    /\ UNCHANGED <<stageFrame, onErrorCalls, observed>>

\* api.go 363-367, then handleConnection's return (api.go 222-229)
SessSyncRecv(c) ==
    /\ connPc[c] = "handle"
    /\ session[c].stage = "relay"
    /\ session[c].syncPc = "recv"
    /\ Len(session[c].done) > 0
    /\ \E s \in {syncRecv(session[c])} : finishStage(c, s)
    /\ UNCHANGED <<stageFrame, observed>>

\* the configurations a single session is followed under
SessionConfigs ==
    {ServerConfig(host, cred[1], cred[2], 0, cb) :
        host \in {<<>>, <<Scheme, "proxy">>},
        cred \in {<<<<>>, <<>>>>, <<<<117, 115>>, <<112>>>>},
        cb \in CallbackConfigs}

InitSession ==
    /\ server \in SessionConfigs
    /\ InitServerState(1)
    /\ IdleResolver

NextSession ==
    \/ Listen
    \/ CheckCancel
    \/ Accept
    \/ AcquireSemaphore
    \/ \E c \in Conns : ConnAssignId(c)
    \/ \E c \in Conns : ConnOpen(c)
    \/ \E c \in Conns : SessGreet(c)
    \/ \E c \in Conns : SessGetTcpConn(c)
    \/ \E c \in Conns : SessAuthenticate(c)
    \/ \E c \in Conns : SessRelayRequest(c)
    \/ \E c \in Conns : SessRelayResponse(c)
    \/ \E c \in Conns : SessSyncConns(c)
    \/ \E c \in Conns : ConnClose(c)
    \/ \E c \in Conns : ConnDecrement(c)
    \/ \E c \in Conns : ConnRelease(c)

SpecSession == InitSession /\ [][NextSession]_vars

(***************************************************************************)
(* syncConns step by step: one connection whose handshake went as GoodEnv  *)
(* says, from the call of syncConns (api.go 221) on.                       *)
(***************************************************************************)
\* the session after greetClient (api.go 181)
AfterGreet ==
    stageGreet([NewSession EXCEPT !.client = Arrive(@, GoodEnv.greeting, FALSE)])

\* the session after getTcpConn (api.go 190)
AfterConnect(srv) == stageGetTcpConn(AfterGreet, srv, GoodEnv.found, GoodEnv.dialOk)

\* the session as authenticateRemoteSocks finds it and leaves it (api.go 201)
BeforeAuth(srv) == [AfterConnect(srv) EXCEPT !.remote = Arrive(@, GoodEnv.auth, FALSE)]
AfterAuth(srv) == stageAuthenticate(BeforeAuth(srv), srv)

\* the session around the two halves of sendRemoteRequest (api.go 211)
BeforeRequest(srv) ==
    [AfterAuth(srv) EXCEPT !.client = Arrive(@, GoodEnv.request, FALSE)]
AfterRequest(srv) == stageRelayRequest(BeforeRequest(srv))
BeforeResponse(srv) ==
    [AfterRequest(srv) EXCEPT !.remote = Arrive(@, GoodEnv.reply, FALSE)]
RelayReady(srv) == stageRelayResponse(BeforeResponse(srv))

\* what the stages of that handshake saw
RelayObserved(srv) ==
    [greetIn |-> GoodEnv.greeting,
     authIn |-> BeforeAuth(srv).remote.in,
     reqIn |-> BeforeRequest(srv).client.in,
     replyIn |-> BeforeResponse(srv).remote.in,
     clientMark |-> Len(BeforeResponse(srv).client.out),
     remoteMark |-> Len(BeforeRequest(srv).remote.out),
     upstreamMark |-> Len(BeforeResponse(srv).remote.out)]

\* connection 1 has been admitted and handleConnection has brought its session
\* to s, having seen obs; the accept loop waits in Accept
InitAdmitted(s, obs) ==
    /\ Addr = "socks5://127.0.0.1:1080"
    /\ ctxDone = FALSE
    /\ startPc = "accept"
    /\ startResult = "running"
    /\ connBudget = 1
    /\ accepted = 1
    /\ acceptErrs = 0
    /\ pending = 0
    /\ semaphore = 0
    /\ ConnCount = 1
    /\ OpenConnCount = 1
    /\ connPc = [c \in Conns |-> IF c = 1 THEN "handle" ELSE "none"]
    /\ connId = [c \in Conns |-> IF c = 1 THEN 1 ELSE 0]
    /\ session = [c \in Conns |-> IF c = 1 THEN s ELSE NewSession]
    /\ onConnectCalls = [i \in Ids |-> IF i = 1 /\ server.onConnect THEN 1 ELSE 0]
    /\ onDisconnectCalls = [i \in Ids |-> 0]
    /\ onErrorCalls = [i \in Ids |-> 0]
    /\ observed = [c \in Conns |-> IF c = 1 THEN obs ELSE NothingObserved]
    /\ IdleResolver

\* the handshake is done
InitRelay ==
    /\ server \in SessionConfigs
    /\ InitAdmitted(RelayReady(server), RelayObserved(server))

NextRelay ==
    \/ \E c \in Conns : SessSyncStart(c)
    \/ \E c \in Conns, d \in Directions : SessCopierFinish(c, d)
    \/ \E c \in Conns, d \in Directions : SessCopierSend(c, d)
    \/ \E c \in Conns : SessSyncRecv(c)
    \/ \E c \in Conns : ConnClose(c)
    \/ \E c \in Conns : ConnDecrement(c)
    \/ \E c \in Conns : ConnRelease(c)

SpecRelay == InitRelay /\ [][NextRelay]_vars

(***************************************************************************)
(* readSocks5Request on CONNECT requests of every address type and every   *)
(* value of the domain length byte, alone and followed by further bytes.   *)
(***************************************************************************)
ConnectRequests ==
    {Request(5, CONNECT, <<IP_V4, 0>>), Request(5, CONNECT, <<IP_V6, 0>>)}
    \cup {Request(5, CONNECT, <<DOMAIN_NAME, n>>) : n \in 0..255}
AllRequests == ConnectRequests \cup {req \o Payload : req \in ConnectRequests}

\* what the stages before sendRemoteRequest saw
ReaderObserved(srv) ==
    [NothingObserved EXCEPT !.greetIn = GoodEnv.greeting,
                            !.authIn = BeforeAuth(srv).remote.in]

\* the upstream is authenticated; sendRemoteRequest is about to be called
InitReader ==
    /\ server \in SessionConfigs
    /\ InitAdmitted(AfterAuth(server), ReaderObserved(server))

SessReadRequest(c) == RelayRequestOf(c, AllRequests)

NextReader == \E c \in Conns : SessReadRequest(c)

SpecReader == InitReader /\ [][NextReader]_vars

(***************************************************************************)
(* FindNordVpnServer (part_000 117-146) on the package variable servers    *)
(* (part_000 114).  A candidate is its hostname, a number of Hosts.        *)
(***************************************************************************)
\* what findNordVpnServers may return without error: any list of distinct hosts
Range(seq) == {seq[i] : i \in 1..Len(seq)}
DiscoveryLists ==
    UNION {{seq \in [1..n -> Hosts] : Cardinality(Range(seq)) = n} : n \in 0..MaxPool}

\* a removal that shrinks the slice without moving the last element into the gap
removeAtIndexNoSwap(a, idx) ==
    IF idx < 0 \/ idx >= Len(a) THEN a ELSE SubSeq(a, 1, Len(a) - 1)

\* a removal that drops the first element whatever the index is
removeAtIndexFirst(a, idx) ==
    IF idx < 0 \/ idx >= Len(a) THEN a ELSE Tail(a)

\* removeAtIndexNoOrder (part_000 227-236); idx counts from 0
removeAtIndexNoOrder(a, idx) ==
    IF idx < 0 \/ idx >= Len(a) THEN a
    ELSE SubSeq([a EXCEPT ![idx + 1] = a[Len(a)]], 1, Len(a) - 1)

\* chosenAddr, part_000 133
chosenAddr(h) == <<h, Colon, DefaultPort>>

resolverFrame == <<serverVars, reachable>>

\* a goroutine calls FindNordVpnServer
FinderCall(k) ==
    /\ finder[k].pc = "idle"
    /\ calls < MaxCalls
    /\ calls' = calls + 1
    /\ finder' = [finder EXCEPT ![k] = [IdleCall EXCEPT !.pc = "check"]]
    /\ UNCHANGED <<resolverFrame, servers>>

\* part_000 119: if len(servers) == 0
FinderCheckCache(k) ==
    /\ finder[k].pc = "check"
    /\ finder' = [finder EXCEPT ![k].pc = IF Len(servers) = 0 THEN "refresh"
                                          ELSE "loop",
                                ![k].pool0 = servers]
    /\ UNCHANGED <<resolverFrame, servers, calls>>

\* part_000 120-123: servers, err = findNordVpnServers(ctx)
FinderRefresh(k) ==
    /\ finder[k].pc = "refresh"
    /\ \/ /\ servers' = <<>>
          /\ finder' = [finder EXCEPT ![k].pc = "returned", ![k].host = <<>>,
                                      ![k].err = "lookup error"]
       \/ \E list \in DiscoveryLists :
             /\ servers' = list
             /\ finder' = [finder EXCEPT ![k].pc = "loop", ![k].pool0 = list]
    /\ UNCHANGED <<resolverFrame, calls>>

\* part_000 127-133: the emptiness check and the random choice
FinderChoose(k) ==
    /\ finder[k].pc = "loop"
    /\ IF Len(servers) = 0
       THEN finder' = [finder EXCEPT ![k].pc = "returned", ![k].host = <<>>,
                                     ![k].err = "no socks server found"]
       ELSE \E randIdx \in 0..(Len(servers) - 1) :
               finder' = [finder EXCEPT ![k].pc = "probe", ![k].randIdx = randIdx,
                                        ![k].chosen = servers[randIdx + 1]]
    /\ UNCHANGED <<resolverFrame, servers, calls>>

\* part_000 136-140: net.DialTimeout("tcp", chosenAddr, time.Second)
FinderProbe(k) ==
    /\ finder[k].pc = "probe"
    /\ finder' = [finder EXCEPT
                    ![k].pc = IF finder[k].chosen \in reachable THEN "returned"
                              ELSE "remove",
                    ![k].host = IF finder[k].chosen \in reachable
                                THEN chosenAddr(finder[k].chosen) ELSE <<>>]
    /\ UNCHANGED <<resolverFrame, servers, calls>>

\* part_000 143: servers = removeAtIndexNoOrder(servers, randIdx)
FinderRemove(k) ==
    /\ finder[k].pc = "remove"
    /\ servers' = removeAtIndexNoOrder(servers, finder[k].randIdx)
    /\ finder' = [finder EXCEPT ![k].pc = "loop",
                                ![k].evicted = @ \cup {finder[k].chosen}]
    /\ UNCHANGED <<resolverFrame, calls>>

\* the caller takes the result (api.go 234-238)
FinderReturn(k) ==
    /\ finder[k].pc = "returned"
    /\ finder' = [finder EXCEPT ![k] = IdleCall]
    /\ UNCHANGED <<resolverFrame, servers, calls>>

FinderStep(k) ==
    \/ FinderCheckCache(k)
    \/ FinderRefresh(k)
    \/ FinderChoose(k)
    \/ FinderProbe(k)
    \/ FinderRemove(k)
    \/ FinderReturn(k)

\* no server is running; which hosts answer on port 1080 is fixed for the run
InitResolver ==
    /\ server = ServerConfig(<<>>, <<>>, <<>>, 0, {})
    /\ InitServerState(0)
    /\ servers = <<>>
    /\ reachable \in SUBSET Hosts
    /\ finder = [k \in Callers |-> IdleCall]
    /\ calls = 0

\* the calls come one after the other: a call starts when no other is running
NextResolver ==
    \/ \E k \in Callers : (\A j \in Callers : finder[j].pc = "idle") /\ FinderCall(k)
    \/ \E k \in Callers : FinderStep(k)

SpecResolver == InitResolver /\ [][NextResolver]_vars

(***************************************************************************)
(* FindNordVpnServer called by several connections at once (getTcpConn,    *)
(* api.go 234, runs in each connection's goroutine).  servers is read and  *)
(* written without a lock, so the statements of the loop are separate      *)
(* steps.                                                                  *)
(***************************************************************************)
\* part_000 127-129: if len(servers) == 0
FinderLoopCheck(k) ==
    /\ finder[k].pc = "loop"
    /\ finder' = IF Len(servers) = 0
                 THEN [finder EXCEPT ![k].pc = "returned", ![k].host = <<>>,
                                     ![k].err = "no socks server found"]
                 ELSE [finder EXCEPT ![k].pc = "rand"]
    /\ UNCHANGED <<resolverFrame, servers, calls>>

\* part_000 132: rand.Intn(len(servers)), which panics for an argument of 0
FinderRand(k) ==
    /\ finder[k].pc = "rand"
    /\ IF Len(servers) = 0
       THEN finder' = [finder EXCEPT ![k].pc = "panicked",
                                     ![k].err = "invalid argument to Intn"]
       ELSE \E randIdx \in 0..(Len(servers) - 1) :
               finder' = [finder EXCEPT ![k].pc = "index", ![k].randIdx = randIdx]
    /\ UNCHANGED <<resolverFrame, servers, calls>>

\* part_000 133: servers[randIdx], which panics for an index past the end
FinderIndex(k) ==
    /\ finder[k].pc = "index"
    /\ finder' = IF finder[k].randIdx >= Len(servers)
                 THEN [finder EXCEPT ![k].pc = "panicked",
                                     ![k].err = "index out of range"]
                 ELSE [finder EXCEPT ![k].pc = "probe",
                                     ![k].chosen = servers[finder[k].randIdx + 1]]
    /\ UNCHANGED <<resolverFrame, servers, calls>>

\* part_000 119: if len(servers) == 0
FinderCacheCheck(k) ==
    /\ finder[k].pc = "check"
    /\ finder' = [finder EXCEPT ![k].pc = IF Len(servers) = 0 THEN "refresh"
                                          ELSE "loop"]
    /\ UNCHANGED <<resolverFrame, servers, calls>>

\* part_000 120-123: servers, err = findNordVpnServers(ctx); the assignment
\* is made on an error too, with a nil slice
FinderFetch(k) ==
    /\ finder[k].pc = "refresh"
    /\ \/ /\ servers' = <<>>
          /\ finder' = [finder EXCEPT ![k].pc = "returned", ![k].host = <<>>,
                                      ![k].err = "lookup error"]
       \/ \E list \in DiscoveryLists :
             /\ servers' = list
             /\ finder' = [finder EXCEPT ![k].pc = "loop"]
    /\ UNCHANGED <<resolverFrame, calls>>

\* part_000 143: servers = removeAtIndexNoOrder(servers, randIdx), on the pool
\* as it is now
FinderEvict(k) ==
    /\ finder[k].pc = "remove"
    /\ servers' = removeAtIndexNoOrder(servers, finder[k].randIdx)
    /\ finder' = [finder EXCEPT ![k].pc = "loop"]
    /\ UNCHANGED <<resolverFrame, calls>>

\* any caller may be anywhere in FindNordVpnServer while another one runs
NextConcurrent ==
    \/ \E k \in Callers : FinderCall(k)
    \/ \E k \in Callers : FinderCacheCheck(k)
    \/ \E k \in Callers : FinderFetch(k)
    \/ \E k \in Callers : FinderLoopCheck(k)
    \/ \E k \in Callers : FinderRand(k)
    \/ \E k \in Callers : FinderIndex(k)
    \/ \E k \in Callers : FinderProbe(k)
    \/ \E k \in Callers : FinderEvict(k)
    \/ \E k \in Callers : FinderReturn(k)

SpecConcurrent == InitResolver /\ [][NextConcurrent]_vars

Next ==
    \/ Listen
    \/ Cancel
    \/ CheckCancel
    \/ Accept
    \/ AcceptError
    \/ AcquireSemaphore
    \/ \E c \in Conns : ConnAssignId(c)
    \/ \E c \in Conns : ConnOpen(c)
    \/ \E c \in Conns : ConnHandle(c)
    \/ \E c \in Conns : ConnClose(c)
    \/ \E c \in Conns : ConnDecrement(c)
    \/ \E c \in Conns : ConnRelease(c)

Spec == Init /\ [][Next]_vars


(***************************************************************************)
(* The open-connection ceiling (Server.Start)                              *)
(***************************************************************************)
\* the steps of connection c's goroutine (api.go 155-175)
ConnStep(c) ==
    \/ ConnAssignId(c)
    \/ ConnOpen(c)
    \/ ConnHandle(c)
    \/ ConnClose(c)
    \/ ConnDecrement(c)
    \/ ConnRelease(c)

\* every goroutine that can take a step eventually takes one
SpecFair ==
    /\ Spec
    /\ WF_vars(AcquireSemaphore)
    /\ \A c \in Conns : WF_vars(ConnStep(c))

\* connections that hold a slot: admitted, their release not yet done
Admitted == {c \in Conns : connPc[c] \in {"spawned", "count", "handle", "closed",
                                          "release"}}

\* C1: with a ceiling N > 0, an accepted connection that waits for a slot is
\* eventually dispatched, because every handler that completes frees a slot
C1_WaitingConnectionDispatched ==
    (server.openConnLimit > 0 /\ startPc = "acquire" /\ pending # 0)
        ~> (pending = 0)

\* C2: with a ceiling N > 0 at most N connections are handled at once
\* (OpenConnCount <= N); while N connections hold a slot the next accepted
\* connection is not dispatched and has been sent nothing
C2_OpenConnCeiling ==
    server.openConnLimit > 0 =>
        /\ OpenConnCount <= server.openConnLimit
        /\ Cardinality(Admitted) <= server.openConnLimit
        /\ (Cardinality(Admitted) = server.openConnLimit /\ startPc = "acquire")
              => ~acquire(semaphore, server.openConnLimit).ok
        /\ \A c \in Conns :
              connPc[c] = "accepted" =>
                 /\ session[c].stage = "greet"
                 /\ session[c].client.out = <<>>

\* N connections are open and one more is accepted and kept waiting
C2_Witness ==
    /\ server.openConnLimit > 0
    /\ OpenConnCount = server.openConnLimit
    /\ startPc = "acquire"
    /\ pending # 0
    /\ connPc[pending] = "accepted"
    /\ ~acquire(semaphore, server.openConnLimit).ok
    /\ session[pending].client.out = <<>>

(***************************************************************************)
(* The protocol engine (handleConnection and the functions it calls)       *)
(***************************************************************************)
\* the length RFC 1928 gives a request or reply that starts as b does
FrameLen(b) ==
    IF b[4] = IP_V4 THEN 4 + 4 + 2
    ELSE IF b[4] = IP_V6 THEN 4 + 16 + 2
    ELSE 4 + 1 + b[5] + 2

\* b starts with a whole request or reply of a known address type
WellFramed(b) ==
    /\ Len(b) >= 5
    /\ b[1] = 5
    /\ b[4] \in {IP_V4, DOMAIN_NAME, IP_V6}
    /\ Len(b) >= FrameLen(b)

Frame(b) == SubSeq(b, 1, FrameLen(b))

From(seq, mark) == SubSeq(seq, mark + 1, Len(seq))

\* the greeting g carries its whole method list
WholeGreeting(g) == Len(g) >= 2 /\ Len(g) >= 2 + g[2]
Offers(g, method) == \E i \in 3..(2 + g[2]) : g[i] = method

GreetRan(c) == connPc[c] # "none" /\ session[c].stage # "greet"
GreetFailed(c) ==
    session[c].stage = "returned" /\ session[c].err = "error greeting client"

\* the call of authenticateRemoteSocks has returned
AuthRan(c) == session[c].hasRemote /\ session[c].stage # "authenticate"
AuthFailed(c) ==
    /\ session[c].stage = "returned"
    /\ session[c].err = "error authenticating with remote server"

\* the first half of sendRemoteRequest has just forwarded the request
RequestForwarded(c) == session[c].stage = "response"
RequestFailed(c) ==
    /\ session[c].stage = "returned"
    /\ session[c].err \in {"error reading request from client",
                           "error forwarding request to remote server"}

\* sendRemoteRequest has just returned after it read the upstream's reply
ResponseForwarded(c) == session[c].stage = "relay" /\ session[c].syncPc = "idle"
ResponseFailed(c) ==
    /\ session[c].stage = "returned"
    /\ session[c].err \in {"error reading response from remote server",
                           "error forwarding response to client"}

\* what sendRemoteRequest wrote while it handled the upstream's reply
ClientGot(c) == From(session[c].client.out, observed[c].clientMark)
UpstreamGot(c) == From(session[c].remote.out, observed[c].upstreamMark)

\* C3: a reply of the upstream with a reply code other than success fails the
\* session, and the client, not the upstream, is sent the failure reply with
\* that code (general failure for a code that is not known)
C3_FailureReplyToClient ==
    \A c \in Conns :
       ( /\ ResponseForwarded(c) \/ ResponseFailed(c)
         /\ Len(observed[c].replyIn) >= 4
         /\ observed[c].replyIn[1] = SOCKS_VERSION
         /\ observed[c].replyIn[2] # STATUS_OK
         /\ ~session[c].client.broken )
       => /\ ResponseFailed(c)
          /\ Len(ClientGot(c)) >= 2
          /\ ClientGot(c)[1] = SOCKS_VERSION
          /\ ClientGot(c)[2] = IF observed[c].replyIn[2] \in 1..8
                               THEN observed[c].replyIn[2]
                               ELSE GENERAL_SOCKS_FAILURE
          /\ UpstreamGot(c) = <<>>

\* C4: what sendRemoteRequest writes to the client for a successful reply of
\* the upstream is that reply, byte for byte, for IPv4, IPv6 and domain names
C4_ReplyForwardedVerbatim ==
    \A c \in Conns :
       ( /\ ResponseForwarded(c) \/ ResponseFailed(c)
         /\ WellFramed(observed[c].replyIn)
         /\ observed[c].replyIn[2] = STATUS_OK
         /\ ~session[c].client.broken )
       => /\ ResponseForwarded(c)
          /\ ClientGot(c) = Frame(observed[c].replyIn)

\* C5: what sendRemoteRequest writes to the upstream for a valid CONNECT
\* request of the client is that request, byte for byte, for IPv4, IPv6 and
\* domain names; what the client sent after it stays unread
C5_RequestForwardedVerbatim ==
    \A c \in Conns :
       ( /\ RequestForwarded(c) \/ RequestFailed(c)
         /\ WellFramed(observed[c].reqIn)
         /\ observed[c].reqIn[2] = CONNECT
         /\ ~session[c].remote.broken )
       => /\ RequestForwarded(c)
          /\ From(session[c].remote.out, observed[c].remoteMark)
                = Frame(observed[c].reqIn)
          /\ session[c].client.in
                = From(observed[c].reqIn, FrameLen(observed[c].reqIn))

\* a domain name request has been forwarded
C5_Witness ==
    \E c \in Conns :
       /\ RequestForwarded(c)
       /\ WellFramed(observed[c].reqIn)
       /\ observed[c].reqIn[2] = CONNECT
       /\ observed[c].reqIn[4] = DOMAIN_NAME
       /\ observed[c].reqIn[5] >= 1
       /\ Len(From(session[c].remote.out, observed[c].remoteMark))
             = 7 + observed[c].reqIn[5]

\* C6: a server made with an empty user and an empty password sends the
\* upstream no offer of the username/password method and no subnegotiation
C6_NoAuthWithoutCredentials ==
    \A c \in Conns :
       (server.RemoteUser = <<>> /\ server.RemotePass = <<>>)
       => ~( /\ Len(session[c].remote.out) >= 3
             /\ SubSeq(session[c].remote.out, 1, 3)
                   = <<SOCKS_VERSION, 1, USERNAME_PASSWORD_AUTH>> )

\* C7: a greeting of version 5 that offers "no authentication" is answered
\* with the two bytes 5, 0 and nothing else, and the session goes on
C7_GreetingAccepted ==
    \A c \in Conns :
       ( /\ GreetRan(c)
         /\ WholeGreeting(observed[c].greetIn)
         /\ observed[c].greetIn[1] = SOCKS_VERSION
         /\ Offers(observed[c].greetIn, NO_AUTHENTICATION) )
       => /\ ~GreetFailed(c)
          /\ Len(session[c].client.out) >= 2
          /\ SubSeq(session[c].client.out, 1, 2) = <<5, 0>>
          /\ session[c].stage = "connect" => session[c].client.out = <<5, 0>>

\* a greeting that offers two methods, the second of them "no authentication"
C7_Witness ==
    \E c \in Conns :
       /\ session[c].stage = "connect"
       /\ observed[c].greetIn = <<5, 2, 2, 0>>
       /\ session[c].client.out = <<5, 0>>

\* the session of c ended at the greeting and nothing was done for it after
Refused(c) ==
    /\ session[c].client.out = <<SOCKS_VERSION, NO_ACCEPTABLE_METHODS>>
    /\ GreetFailed(c)
    /\ session[c].finderCalls = 0
    /\ session[c].dials = 0
    /\ ~session[c].hasRemote
    /\ session[c].remote.out = <<>>
    /\ connPc[c] \in {"closed", "release", "done"} => session[c].client.closed

\* C8 as stated: every greeting whose method list lacks "no authentication"
\* is answered with 5, 0xFF and the session ends
C8_EveryGreetingRefused ==
    \A c \in Conns :
       ( /\ GreetRan(c)
         /\ WholeGreeting(observed[c].greetIn)
         /\ ~Offers(observed[c].greetIn, NO_AUTHENTICATION) )
       => Refused(c)

\* C8: a greeting of version 5 whose method list lacks "no authentication"
\* (an empty list too) is answered with 5, 0xFF; the session ends with no
\* upstream resolved or dialled, and the client socket is closed
C8_GreetingRefused ==
    \A c \in Conns :
       ( /\ GreetRan(c)
         /\ WholeGreeting(observed[c].greetIn)
         /\ observed[c].greetIn[1] = SOCKS_VERSION
         /\ ~Offers(observed[c].greetIn, NO_AUTHENTICATION) )
       => Refused(c)

\* a greeting with an empty method list was refused and the socket closed
C8_Witness ==
    \E c \in Conns :
       /\ observed[c].greetIn = <<5, 0>>
       /\ Refused(c)
       /\ session[c].client.closed

\* what the upstream has received when only authenticateRemoteSocks wrote to it
AuthBytes ==
    {<<>>, <<SOCKS_VERSION, 1, USERNAME_PASSWORD_AUTH>>,
     <<SOCKS_VERSION, 1, USERNAME_PASSWORD_AUTH>>
        \o authRequest(server.RemoteUser, server.RemotePass)}

\* C9: status 0 of the username/password subnegotiation lets the session go
\* on; a status other than 0, or the choice of another method, fails it, and
\* then the upstream gets no byte of the CONNECT request and no relay starts
C9_AuthenticationGates ==
    \A c \in Conns :
       AuthRan(c) =>
          /\ ( /\ Len(observed[c].authIn) >= 4
               /\ observed[c].authIn[2] = USERNAME_PASSWORD_AUTH
               /\ observed[c].authIn[4] = 0
               /\ ~session[c].remote.broken )
             => ~AuthFailed(c)
          /\ ( \/ /\ Len(observed[c].authIn) >= 2
                  /\ observed[c].authIn[2] # USERNAME_PASSWORD_AUTH
               \/ /\ Len(observed[c].authIn) >= 4
                  /\ observed[c].authIn[4] # 0 )
             => /\ AuthFailed(c)
                /\ session[c].remote.out \in AuthBytes
                /\ session[c].syncPc = "idle"
                /\ \A d \in Directions : session[c].copier[d].pc = "idle"

\* the upstream chose username/password and answered with status 1
C9_Witness ==
    \E c \in Conns :
       /\ observed[c].authIn = <<5, 2, 1, 1>>
       /\ AuthFailed(c)
       /\ Len(session[c].remote.out) > 3
       /\ session[c].remote.out \in AuthBytes

(***************************************************************************)
(* The resolver (FindNordVpnServer)                                        *)
(***************************************************************************)
\* C10: a call that works on a pool which is not empty and has no reachable
\* host returns the error "no socks server found"; it has evicted every
\* candidate and leaves the pool empty
C10_AllUnreachableEmptiesPool ==
    \A k \in Callers :
       ( /\ finder[k].pc = "returned"
         /\ finder[k].pool0 # <<>>
         /\ Range(finder[k].pool0) \cap reachable = {} )
       => /\ finder[k].err = "no socks server found"
          /\ finder[k].host = <<>>
          /\ finder[k].evicted = Range(finder[k].pool0)
          /\ servers = <<>>

\* a call has gone through a pool of two or more hosts, all unreachable
C10_Witness ==
    \E k \in Callers :
       /\ finder[k].pc = "returned"
       /\ Len(finder[k].pool0) >= 2
       /\ Range(finder[k].pool0) \cap reachable = {}
       /\ finder[k].err = "no socks server found"
       /\ servers = <<>>

\* the call of k has returned from a pool with exactly one reachable host
OneReachable(k) ==
    /\ finder[k].pc = "returned"
    /\ Cardinality(Range(finder[k].pool0) \cap reachable) = 1

\* C11 as stated: once a call has returned the one reachable host of the pool,
\* the pool holds that host and nothing else
C11_PoolIsTheReachableHost ==
    \A k \in Callers :
       (OneReachable(k) /\ finder[k].host # <<>>)
       => \E h \in reachable : servers = <<h>>

\* C11: every call on a pool with exactly one reachable host returns that
\* host; the pool keeps it and loses exactly the hosts whose probe failed, so
\* it holds that host alone once every unreachable host has been probed; no
\* call evicts a reachable host or returns an unreachable one
C11_OnlyTheReachableHostSurvives ==
    \A k \in Callers :
       /\ finder[k].evicted \cap reachable = {}
       /\ (finder[k].pc = "returned" /\ finder[k].host # <<>>)
             => \E h \in reachable : finder[k].host = chosenAddr(h)
       /\ OneReachable(k)
             => /\ finder[k].err = nil
                /\ \E h \in Range(finder[k].pool0) \cap reachable :
                      /\ finder[k].host = chosenAddr(h)
                      /\ h \in Range(servers)
                      /\ finder[k].evicted = Range(finder[k].pool0) \ {h}
                            => servers = <<h>>
                /\ Range(servers) = Range(finder[k].pool0) \ finder[k].evicted
                /\ Cardinality(Range(servers)) = Len(servers)

\* three candidates, two of them unreachable and evicted by this call
C11_Witness ==
    \E k \in Callers :
       /\ OneReachable(k)
       /\ Len(finder[k].pool0) = 3
       /\ Cardinality(finder[k].evicted) = 2
       /\ Len(servers) = 1
       /\ finder[k].host = chosenAddr(servers[1])

\* sendRemoteRequest has run for c and read a whole request header
RequestRead(c) ==
    /\ RequestForwarded(c) \/ RequestFailed(c)
    /\ Len(observed[c].reqIn) >= 4

\* the request of c was refused with the reply code rep: the client got the
\* two bytes 5, rep after the greeting reply, the upstream got nothing of the
\* request and the relay did not start
RefusedWith(c, rep) ==
    /\ RequestFailed(c)
    /\ session[c].client.out = <<5, 0, 5, rep>>
    /\ From(session[c].remote.out, observed[c].remoteMark) = <<>>
    /\ session[c].syncPc = "idle"
    /\ \A d \in Directions : session[c].copier[d].pc = "idle"

\* C14 as stated: every request with a command other than CONNECT is refused
\* with "command not supported", every request with an unknown address type
\* with "address type not supported"
C14_EveryBadRequestRefused ==
    \A c \in Conns :
       RequestRead(c) =>
          /\ observed[c].reqIn[2] # 1 => RefusedWith(c, 7)
          /\ observed[c].reqIn[4] \notin {1, 3, 4} => RefusedWith(c, 8)

\* C14: a request of version 5 with a command other than CONNECT is refused
\* with "command not supported"; a CONNECT request of version 5 with an
\* unknown address type is refused with "address type not supported"; in both
\* cases the upstream gets no byte of the request and no relay starts
C14_BadRequestRefused ==
    \A c \in Conns :
       (RequestRead(c) /\ observed[c].reqIn[1] = 5) =>
          /\ observed[c].reqIn[2] # 1 => RefusedWith(c, 7)
          /\ (observed[c].reqIn[2] = 1 /\ observed[c].reqIn[4] \notin {1, 3, 4})
                => RefusedWith(c, 8)

\* a CONNECT request with address type 2 was refused
C14_Witness ==
    \E c \in Conns :
       /\ RequestRead(c)
       /\ observed[c].reqIn[1] = 5
       /\ observed[c].reqIn[2] = 1
       /\ observed[c].reqIn[4] = 2
       /\ RefusedWith(c, 8)

\* the state SpecReader starts in is one a session of SpecSession gets to
ReaderStartReached ==
    /\ startPc = "accept"
    /\ connPc[1] = "handle"
    /\ session[1] = AfterAuth(server)
    /\ observed[1] = ReaderObserved(server)
    /\ OpenConnCount = 1 /\ ConnCount = 1 /\ connId[1] = 1 /\ accepted = 1
    /\ onConnectCalls[1] = (IF server.onConnect THEN 1 ELSE 0)
    /\ onErrorCalls[1] = 0 /\ onDisconnectCalls[1] = 0
    /\ semaphore = 0 /\ pending = 0 /\ ~ctxDone

\* the number of bytes of the client that sendRemoteRequest has consumed
Consumed(c) == Len(observed[c].reqIn) - Len(session[c].client.in)

\* C15: of a CONNECT request with address type IPv4, IPv6 or domain name,
\* readSocks5Request reads the 4 bytes of the header, then 4, 16 or 1 + n bytes
\* of address (n the domain length byte, 0..255), then the 2 bytes of the
\* port, and no more: what the client sent after the request is left unread
C15_ExactRequestLength ==
    \A c \in Conns :
       ( /\ RequestRead(c)
         /\ Len(observed[c].reqIn) >= 5
         /\ observed[c].reqIn[1] = 5
         /\ observed[c].reqIn[2] = 1
         /\ observed[c].reqIn[4] \in {1, 3, 4} )
       => \E n \in {IF observed[c].reqIn[4] = 1 THEN 4 + 4 + 2
                    ELSE IF observed[c].reqIn[4] = 4 THEN 4 + 16 + 2
                    ELSE 4 + (1 + observed[c].reqIn[5]) + 2} :
             /\ Consumed(c) <= n
             /\ Len(observed[c].reqIn) >= n
                   => /\ Consumed(c) = n
                      /\ session[c].client.in = From(observed[c].reqIn, n)

\* a domain name of 255 bytes, followed by two more bytes that stay unread
C15_Witness ==
    \E c \in Conns :
       /\ RequestForwarded(c)
       /\ observed[c].reqIn[4] = 3
       /\ observed[c].reqIn[5] = 255
       /\ Consumed(c) = 262
       /\ session[c].client.in = Payload

(***************************************************************************)
(* The relay (syncConns)                                                   *)
(***************************************************************************)
\* the state SpecRelay starts in is one a session of SpecSession gets to
RelayStartReached ==
    /\ startPc = "accept"
    /\ connPc[1] = "handle"
    /\ session[1] = RelayReady(server)
    /\ observed[1] = RelayObserved(server)
    /\ OpenConnCount = 1 /\ ConnCount = 1 /\ connId[1] = 1 /\ accepted = 1
    /\ onConnectCalls[1] = (IF server.onConnect THEN 1 ELSE 0)
    /\ onErrorCalls[1] = 0 /\ onDisconnectCalls[1] = 0
    /\ semaphore = 0 /\ pending = 0 /\ ~ctxDone

\* what handleConnection does with the value syncConns returned for the copy
\* loop of direction d: nothing for a reset or a clean end, one onError (when
\* the callback is set) for any other error
ReportedAs(c, d) ==
    IF session[c].copier[d].outcome = "other"
    THEN /\ session[c].err = "error syncing connections"
         /\ session[c].cause = "error copying data"
         /\ onErrorCalls[connId[c]] = (IF server.onError THEN 1 ELSE 0)
    ELSE /\ session[c].err = nil
         /\ session[c].cause = nil
         /\ onErrorCalls[connId[c]] = 0

\* C12 as stated: syncConns returns what the copy loop that terminated first
\* ended with, nil for a connection reset and an error for another failure
C12_FirstTerminationReported ==
    \A c \in Conns :
       session[c].syncPc = "returned" => ReportedAs(c, session[c].ended[1])

\* C12: syncConns returns what the copy goroutine that sent first on done
\* ended with: nil and no onError for a connection reset, an error and one
\* onError for any other failure of the copy
C12_FirstSendReported ==
    \A c \in Conns :
       session[c].syncPc = "returned" =>
          /\ session[c].first \in Directions
          /\ ReportedAs(c, session[c].first)

\* a copy loop ended with a connection reset and syncConns returned nil
C12_Witness ==
    \E c \in Conns :
       /\ session[c].syncPc = "returned"
       /\ session[c].copier[session[c].first].outcome = "reset"
       /\ server.onError
       /\ session[c].err = nil
       /\ onErrorCalls[connId[c]] = 0

\* the value the goroutine of direction d sent first on done
FirstSent(c, d) == copierSends(session[c].copier[d].outcome)[1]

\* syncConns is between its go statements and its receive (api.go 363)
Relaying == {c \in Conns : connPc[c] = "handle" /\ session[c].syncPc = "recv"}

\* C18 as stated: syncConns returns the outcome of the copy loop that
\* terminated first, and returns with both sockets closed
C18_FirstTerminationReturned ==
    \A c \in Conns :
       session[c].syncPc = "returned" =>
          /\ session[c].client.closed /\ session[c].remote.closed
          /\ session[c].cause = FirstSent(c, session[c].ended[1])

\* C18: while syncConns waits both sockets stay open, and once a copy loop
\* has terminated the receive is never blocked (a value is on done or a
\* goroutine can send one); syncConns returns only with both sockets closed,
\* and the value it returns is the one sent first on done, by a copy loop
\* that had terminated
C18_FirstSendClosesBoth ==
    /\ \A c \in Relaying :
          /\ ~session[c].client.closed /\ ~session[c].remote.closed
          /\ session[c].ended # <<>> =>
                \/ Len(session[c].done) = 1
                \/ \E d \in Directions : canSend(session[c], d)
    /\ \A c \in Conns :
          session[c].syncPc = "returned" =>
             /\ session[c].client.closed /\ session[c].remote.closed
             /\ session[c].first \in Range(session[c].ended)
             /\ session[c].cause = FirstSent(c, session[c].first)

\* both copy loops terminated before the receive, the second one sent first,
\* and syncConns returned its error with both sockets closed
C18_Witness ==
    \E c \in Conns :
       /\ session[c].syncPc = "returned"
       /\ Len(session[c].ended) = 2
       /\ session[c].first = session[c].ended[2]
       /\ session[c].cause = "error copying data"
       /\ session[c].client.closed /\ session[c].remote.closed

(***************************************************************************)
(* The accept loop (Server.Start)                                          *)
(***************************************************************************)
\* connections whose goroutine has taken its id (api.go 156)
Numbered == {c \in Conns : connPc[c] \in {"count", "handle", "closed", "release",
                                          "done"}}
\* connections whose goroutine has done its send at api.go 173
Released == {c \in Conns : connPc[c] = "done"}

\* C13: a failed accept does not end Start; each one starts onError once with
\* id 0 when the callback is set, takes no connection id and no slot, and the
\* loop goes on: Start returns only for a failed listen or a cancelled context
C13_AcceptErrorsNotFatal ==
    /\ onErrorCalls[0] = (IF server.onError THEN acceptErrs ELSE 0)
    /\ ConnCount = Cardinality(Numbered)
    /\ \A c \in Numbered : connId[c] \in 1..ConnCount
    /\ server.openConnLimit > 0
          => semaphore = Cardinality(Admitted) + 2 * Cardinality(Released)
    /\ startPc = "returned"
          => \/ startResult = "listen error" /\ acceptErrs = 0 /\ accepted = 0
             \/ startResult = nil /\ ctxDone
    /\ startPc # "returned" => startResult = "running"

\* after a failed accept the loop has accepted a connection, which got id 1
C13_Witness ==
    /\ acceptErrs = 1
    /\ server.onError
    /\ onErrorCalls[0] = 1
    /\ accepted = 1
    /\ connPc[1] = "handle"
    /\ connId[1] = 1
    /\ ConnCount = 1
    /\ startPc = "accept"

\* C16: under every interleaving the ids of the admitted connections are
\* positive and differ from one another, an id once given is never changed or
\* given again, and each new id is greater than every id given before
C16_UniqueIncreasingIds ==
    /\ [](/\ \A c \in Numbered : connId[c] >= 1
          /\ \A c \in Conns \ Numbered : connId[c] = 0
          /\ \A c1, c2 \in Numbered : c1 # c2 => connId[c1] # connId[c2]
          /\ {connId[c] : c \in Numbered} = 1..ConnCount)
    /\ [][/\ ConnCount' >= ConnCount
          /\ \A c \in Conns :
                /\ connId[c] # 0 => connId'[c] = connId[c]
                /\ (connId[c] = 0 /\ connId'[c] # 0)
                      => /\ connId'[c] = ConnCount'
                         /\ ConnCount' = ConnCount + 1
                         /\ \A c2 \in Conns : connId[c2] < connId'[c]]_vars

\* two connections run at once and the one accepted second took the first id
C16_Witness ==
    /\ connPc[1] = "handle"
    /\ connPc[2] = "handle"
    /\ connId[1] = 2
    /\ connId[2] = 1
    /\ ConnCount = 2

(***************************************************************************)
(* The life of one connection (Server.Start and handleConnection)          *)
(***************************************************************************)
\* connections between OpenConnCount.Add(1) and OpenConnCount.Add(-1)
Open == {c \in Conns : connPc[c] \in {"handle", "closed"}}
\* connections whose goroutine is past conn.Close() (api.go 168)
TornDown == {c \in Conns : connPc[c] \in {"closed", "release", "done"}}

\* C17: whatever the outcome of handleConnection, the goroutine of an admitted
\* connection then starts onDisconnect once with its id (when the callback is
\* set), closes the client socket and decrements OpenConnCount; OpenConnCount
\* is the number of connections between the increment and the decrement, never
\* negative, and 0 when every admitted connection is through
C17_TeardownOnce ==
    /\ \A c \in TornDown :
          /\ session[c].stage = "returned"
          /\ session[c].client.closed
          /\ onDisconnectCalls[connId[c]] = (IF server.onDisconnect THEN 1 ELSE 0)
    /\ \A c \in Numbered \ TornDown : onDisconnectCalls[connId[c]] = 0
    /\ onDisconnectCalls[0] = 0
    /\ OpenConnCount = Cardinality(Open)
    /\ OpenConnCount >= 0
    /\ (\A c \in Conns : connPc[c] \in {"none", "accepted", "release", "done"})
          => OpenConnCount = 0

\* one connection failed, another was served, and both are torn down
C17_Witness ==
    \E c1, c2 \in Conns :
       /\ connPc[c1] \in {"release", "done"}
       /\ connPc[c2] \in {"release", "done"}
       /\ session[c1].err # nil
       /\ session[c2].err = nil
       /\ server.onDisconnect
       /\ onDisconnectCalls[connId[c1]] = 1
       /\ onDisconnectCalls[connId[c2]] = 1
       /\ session[c1].client.closed
       /\ OpenConnCount = 0

(***************************************************************************)
(* The sequence of stages (handleConnection)                               *)
(***************************************************************************)
\* the calls of handleConnection in the order of its text; request and response
\* are the two halves of sendRemoteRequest
StageOrder ==
    <<"greet", "connect", "authenticate", "request", "response", "relay", "returned">>

StageRank(st) == CHOOSE i \in 1..Len(StageOrder) : StageOrder[i] = st

\* the session t of a handleConnection that returned from stage st shows
\* nothing of a later stage: no lookup, dial or upstream socket after a failed
\* greeting, nothing written upstream after a failed dial, and no relay
\* started before the CONNECT exchange has succeeded
NothingLater(st, t) ==
    /\ st = "greet" =>
          ~t.hasRemote /\ t.dials = 0 /\ t.finderCalls = 0 /\ t.remote = NewConn
    /\ st = "connect" => ~t.hasRemote /\ t.remote = NewConn
    /\ st # "relay" =>
          /\ t.syncPc = "idle"
          /\ \A d \in Directions : t.copier[d].pc = "idle"

\* one step seen from connection c: the stage moves to the next one or, on a
\* failure, to the return, where onError is called once for c's id and for no
\* other; after the return nothing more is written, dialled or reported
StageStep(c) ==
    LET s == session[c]
        t == session'[c]
        id == connId[c]
    IN  IF s.stage = "returned"
        THEN /\ t.stage = "returned" /\ t.err = s.err
             /\ t.client.out = s.client.out /\ t.remote.out = s.remote.out
             /\ t.dials = s.dials /\ t.finderCalls = s.finderCalls
             /\ onErrorCalls'[id] = onErrorCalls[id]
        ELSE IF t.stage = s.stage
        THEN onErrorCalls'[id] = onErrorCalls[id]
        ELSE /\ StageRank(t.stage) = StageRank(s.stage) + 1 \/ t.stage = "returned"
             /\ IF t.stage = "returned" /\ t.err # nil
                THEN /\ NothingLater(s.stage, t)
                     /\ onErrorCalls' =
                           IF server.onError
                           THEN [onErrorCalls EXCEPT ![id] = @ + 1]
                           ELSE onErrorCalls
                ELSE /\ onErrorCalls' = onErrorCalls
                     /\ t.stage = "returned" => s.stage = "relay"

\* C19: the stages of a connection run in the order greet, connect,
\* authenticate, request/response, relay; the first failure ends the handling
\* with no later stage acting and exactly one onError for the connection's id
\* when the callback is set; a connection that has not failed has no onError
C19_StagesInOrderTerminalOnFailure ==
    /\ [](\A c \in Numbered :
            /\ onErrorCalls[connId[c]] =
                  (IF session[c].stage = "returned" /\ session[c].err # nil
                      /\ server.onError
                   THEN 1 ELSE 0)
            /\ (session[c].stage = "returned" /\ session[c].err = nil) =>
                  session[c].syncPc = "returned")
    /\ [][\A c \in Numbered : StageStep(c)]_vars

\* the upstream refused the credentials: handleConnection returned from the
\* authentication with one onError for the connection, having started no relay
\* and written nothing more to the client than the method selection
C19_Witness ==
    \E c \in Numbered :
       /\ session[c].stage = "returned"
       /\ session[c].err = "error authenticating with remote server"
       /\ server.onError
       /\ onErrorCalls[connId[c]] = 1
       /\ session[c].syncPc = "idle"
       /\ session[c].client.out = <<5, 0>>

(***************************************************************************)
(* Cancellation of Start's context                                         *)
(***************************************************************************)
\* the connections handed to a goroutine (api.go 155)
Dispatched == {c \in Conns : connPc[c] \notin {"none", "accepted"}}

\* the calls of l.Accept that have returned (api.go 142)
AcceptReturns == accepted + acceptErrs

\* one step of Start: only the check at the top of an iteration (api.go
\* 136-140) or a failed listen ends it, and the check ends it exactly when it
\* sees the context cancelled; with the context cancelled, the accept that was
\* reached before returns at most once, what it accepted is dispatched at most
\* once, and accept is not reached again
StartStep ==
    /\ (startPc = "check" /\ startPc' # "check") =>
          startPc' = (IF ctxDone THEN "returned" ELSE "accept")
    /\ (startPc # "returned" /\ startPc' = "returned") =>
          \/ startPc = "listen" /\ startResult' = "listen error"
          \/ startPc = "check" /\ ctxDone /\ startResult' = nil
    /\ (ctxDone /\ startPc = "accept") =>
          /\ AcceptReturns' <= AcceptReturns + 1
          /\ Dispatched' = Dispatched
    /\ (ctxDone /\ startPc = "acquire") =>
          /\ startPc' \in {"acquire", "check"}
          /\ AcceptReturns' = AcceptReturns
          /\ Dispatched' \subseteq Dispatched \cup {pending}
    /\ (ctxDone /\ startPc = "check") =>
          /\ startPc' \in {"check", "returned"}
          /\ AcceptReturns' = AcceptReturns
          /\ Dispatched' = Dispatched
    /\ startPc = "returned" =>
          /\ startPc' = "returned" /\ startResult' = startResult
          /\ AcceptReturns' = AcceptReturns
          /\ Dispatched' = Dispatched

\* C20: Start returns nil only from the check at the top of an iteration that
\* sees the context cancelled, and otherwise only with a listen error; once the
\* context is cancelled at most one accept still returns, at most the one
\* connection it accepted is dispatched, and accept is never called after that
C20_CancelAtIterationBoundary ==
    /\ [](/\ startPc = "returned" <=> startResult # "running"
          /\ startResult \in {"running", nil, "listen error"}
          /\ startResult = nil => ctxDone
          /\ startResult = "listen error" => AcceptReturns = 0 /\ Dispatched = {})
    /\ [][StartStep]_vars

\* Start has returned nil on a cancelled context after dispatching a connection
\* that is still being handled
C20_Witness ==
    /\ startPc = "returned"
    /\ startResult = nil
    /\ ctxDone
    /\ \E c \in Dispatched : connPc[c] \in {"spawned", "count", "handle"}

(***************************************************************************)
(* The copy goroutines after syncConns has returned                        *)
(***************************************************************************)
\* the relay with every goroutine that can take a step eventually taking one:
\* io.Copy returns once its sockets are closed, a send goes through when the
\* channel has room, and syncConns receives when a value is there
SpecRelayFair ==
    /\ SpecRelay
    /\ \A c \in Conns : WF_vars(SessSyncRecv(c))
    /\ \A c \in Conns, d \in Directions :
          WF_vars(SessCopierFinish(c, d)) /\ WF_vars(SessCopierSend(c, d))

\* C21: after syncConns has returned both copy goroutines eventually
\* terminate, whatever the two copy loops ended with; none stays blocked on
\* its send on done
C21_CopiersTerminate ==
    \A c \in Conns :
       (session[c].syncPc = "returned")
          ~> (\A d \in Directions : session[c].copier[d].pc = "exit")

(***************************************************************************)
(* Concurrent calls of FindNordVpnServer                                   *)
(***************************************************************************)
\* C22: with several calls of FindNordVpnServer running at once, no call
\* panics on an empty pool or on an index past the end of the pool, the pool
\* never holds a candidate twice, and a step that is not a refresh removes
\* from the pool only candidates that are unreachable
C22_ConcurrentEvictionSafe ==
    /\ [](/\ \A k \in Callers : finder[k].pc # "panicked"
          /\ Cardinality(Range(servers)) = Len(servers))
    /\ [][(\A k \in Callers : finder[k].pc # "refresh")
             => (Range(servers) \ Range(servers')) \cap reachable = {}]_vars

====
